---------------------------- MODULE Spec2Model ----------------------------
(***************************************************************************)
(* A model of the Zyxel spreadsheet state engine: the React state held by  *)
(* the Spreadsheet component (src/unnamed/part_001) and the mutation       *)
(* handlers of hooks/useSpreadsheet.ts.                                    *)
(*                                                                         *)
(* Conventions.                                                            *)
(*  - A cell id `${row}-${col}` is the pair <<row, col>>.                  *)
(*  - An optional field is None (undefined, or no own property) or         *)
(*    Some(x).  The code never tells a property holding undefined from a   *)
(*    missing one, and JSON.stringify drops the former.                    *)
(*  - Cell records are JavaScript objects with identity: handleMergeCells  *)
(*    and handleUnmergeCells write their `merged` field in place, and      *)
(*    handleCopy stores references to them.  They live in `heap`, and the  *)
(*    cells maps, the clipboard and the history snapshots hold addresses.  *)
(*    Every other container (sheet lists, sheets, cells maps, formats,     *)
(*    merge descriptors) is only ever rebuilt by spreading, never written  *)
(*    in place, and is held by value.                                      *)
(*  - Row heights are kept in half pixels so that fontSize * 1.5 stays an  *)
(*    integer; column widths are pixels.                                   *)
(***************************************************************************)
EXTENDS Integers, Sequences, FiniteSets, TLC

VARIABLES
  sheets,          \* SpreadsheetState.sheets
  activeSheetId,   \* SpreadsheetState.activeSheetId
  selectedCells,   \* SpreadsheetState.selectedCells
  editingCell,     \* SpreadsheetState.editingCell
  copiedCells,     \* SpreadsheetState.copiedCells (addresses of Cell objects)
  history,         \* SpreadsheetState.history
  historyIndex,    \* SpreadsheetState.historyIndex
  heap,            \* the Cell objects, by address
  updateTimeout,   \* updateTimeoutRef.current with the closure it will run
  crashed,         \* an updater has thrown: React has unmounted the tree
  now,             \* the reading of Date.now()
  nMut,            \* history-producing operations invoked so far
  typingBuffer,    \* Spreadsheet's typingBuffer state
  typingCellId,    \* Spreadsheet's typingCellId state
  localValue,      \* localValue of the CellComponent that is being edited
  options,         \* the DropdownEditor's option list
  grid             \* the grid's pointer controller: its drag, fill and resize state

vars == <<sheets, activeSheetId, selectedCells, editingCell, copiedCells,
          history, historyIndex, heap, updateTimeout, crashed, now, nMut,
          typingBuffer, typingCellId, localValue, options, grid>>

-----------------------------------------------------------------------------
(* Bounds of the model *)

MaxMut == 3
MaxSheets == 2
MaxClock == 3
LongRun == 53

(* Program constants *)

DEFAULT_ROW_HEIGHT == 30
DEFAULT_COLUMN_WIDTH == 100
HistoryLimit == 50
totalRows == 1000
totalCols == 26
DefaultFontSize == 14

-----------------------------------------------------------------------------
(* Optional values and small helpers *)

None == <<>>
Some(x) == <<x>>
IsSome(o) == o # <<>>
Get(o) == o[1]

Min(S) == CHOOSE x \in S : \A y \in S : x =< y
Max(S) == CHOOSE x \in S : \A y \in S : x >= y
Maximum(a, b) == IF a >= b THEN a ELSE b

SeqToSet(s) == {s[i] : i \in DOMAIN s}

\* Object spread / property removal on a map held as a function.
Without(f, ks) == [x \in DOMAIN f \ ks |-> f[x]]

-----------------------------------------------------------------------------
(* Addresses.  After every state update the heap is renamed so that each   *)
(* object's address is the first place that refers to it, in the order:    *)
(* the live sheets' cells, the clipboard, the history snapshots.  Objects  *)
(* created inside an update carry the negated number of the place they are *)
(* first stored in until that renaming.                                    *)

KeyIdx(k) == k[1] * totalCols + k[2] + 1
CellsPerSheet == totalRows * totalCols
LiveSlot(s, k) == (s - 1) * CellsPerSheet + KeyIdx(k)
ClipSlot(i) == (MaxSheets + 1) * CellsPerSheet + i
HistBase(h) == (MaxSheets + 2 + (h - 1) * (MaxSheets + 1)) * CellsPerSheet

SheetRefs(ss, base) ==
  UNION { { <<base + (s - 1) * CellsPerSheet + KeyIdx(k), ss[s].cells[k]>> :
              k \in DOMAIN ss[s].cells } : s \in DOMAIN ss }

Refs(p) ==
  SheetRefs(p.sheets, 0)
    \cup { <<ClipSlot(i), p.copiedCells[i]>> : i \in DOMAIN p.copiedCells }
    \cup UNION { SheetRefs(p.history[h].sheets, HistBase(h)) : h \in DOMAIN p.history }

Normalize(p) ==
  LET refs == Refs(p)
      used == {r[2] : r \in refs}
      canon == [a \in used |-> Min({r[1] : r \in {q \in refs : q[2] = a}})]
      ren(ss) == [s \in DOMAIN ss |->
                    [ss[s] EXCEPT !.cells = [k \in DOMAIN ss[s].cells |-> canon[ss[s].cells[k]]]]]
  IN [p EXCEPT
        !.sheets = ren(p.sheets),
        !.copiedCells = [i \in DOMAIN p.copiedCells |-> canon[p.copiedCells[i]]],
        !.history = [h \in DOMAIN p.history |->
                       [p.history[h] EXCEPT !.sheets = ren(p.history[h].sheets)]],
        !.heap = [n \in {canon[a] : a \in used} |->
                    p.heap[CHOOSE a \in used : canon[a] = n]]]

\* The content of a list of sheets with every cell address replaced by the
\* record it refers to: what JSON.stringify sees, and what deep equality compares.
Deref(ss, hp) ==
  [s \in DOMAIN ss |-> [ss[s] EXCEPT !.cells = [k \in DOMAIN ss[s].cells |-> hp[ss[s].cells[k]]]]]

\* JSON.parse(JSON.stringify(sheets)): fresh cell objects for every cell of
\* every sheet, stored at the places starting at `base`.
\* (A faulty variant: the same objects, not copies.)
JSONCloneShallow(ss, hp, base) == [sheets |-> ss, heap |-> hp]

JSONClone(ss, hp, base) ==
  LET addr(s, k) == 0 - (base + (s - 1) * CellsPerSheet + KeyIdx(k))
      fresh == UNION { { <<addr(s, k), ss[s].cells[k]>> : k \in DOMAIN ss[s].cells } :
                         s \in DOMAIN ss }
  IN [sheets |-> [s \in DOMAIN ss |->
                    [ss[s] EXCEPT !.cells = [k \in DOMAIN ss[s].cells |-> addr(s, k)]]],
      heap |-> [a \in {f[1] : f \in fresh} |->
                  hp[(CHOOSE f \in fresh : f[1] = a)[2]]] @@ hp]

-----------------------------------------------------------------------------
(* Sheets and cells *)

CellId(row, col) == <<row, col>>

BlankCell(cellId) ==
  [id |-> cellId, value |-> "", format |-> None, dropdown |-> None,
   link |-> None, merged |-> None]

\* prev.sheets.find((s) => s.id === id): the index of the first match, 0 for none.
FindSheet(ss, id) ==
  IF \E i \in DOMAIN ss : ss[i].id = id
    THEN Min({i \in DOMAIN ss : ss[i].id = id})
    ELSE 0

\* prev.sheets.map((s) => s.id === id ? updatedSheet : s)
ReplaceSheet(ss, id, updatedSheet) ==
  [i \in DOMAIN ss |-> IF ss[i].id = id THEN updatedSheet ELSE ss[i]]

\* The record stored at a key of a sheet, None when the key has no record.
CellAt(sheet, hp, cellId) ==
  IF cellId \in DOMAIN sheet.cells THEN Some(hp[sheet.cells[cellId]]) ELSE None

\* typeof value === "boolean" for a field of CellFormat.
BooleanFields == {"bold", "italic", "underline", "strikethrough"}

EmptySheet(id, name) ==
  [id |-> id, name |-> name, color |-> None, cells |-> <<>>, rowHeights |-> <<>>,
   columnWidths |-> <<>>, mergedCells |-> <<>>]

initialSheet == EmptySheet("sheet-1", "Sheet1")

initialState ==
  [sheets |-> <<initialSheet>>,
   activeSheetId |-> "sheet-1",
   selectedCells |-> <<>>,
   editingCell |-> None,
   copiedCells |-> <<>>,
   history |-> <<>>,
   historyIndex |-> -1,
   heap |-> <<>>,
   updateTimeout |-> None,
   crashed |-> FALSE]

-----------------------------------------------------------------------------
(* saveToHistory *)

\* Two faulty variants: one that appends without slicing at the cursor, one
\* that never evicts.
SaveWithoutTruncate(prev) ==
  LET h == Len(prev.history) + 1
      copy == JSONClone(prev.sheets, prev.heap, HistBase(h))
      pushed == Append(prev.history,
                       [sheets |-> copy.sheets, selectedCells |-> prev.selectedCells])
      newHistory == IF Len(pushed) > HistoryLimit THEN Tail(pushed) ELSE pushed
  IN Normalize([prev EXCEPT !.history = newHistory,
                            !.historyIndex = Len(newHistory) - 1,
                            !.heap = copy.heap])

SaveUnbounded(prev) ==
  LET kept == SubSeq(prev.history, 1, prev.historyIndex + 1)
      copy == JSONClone(prev.sheets, prev.heap, HistBase(Len(kept) + 1))
      pushed == Append(kept, [sheets |-> copy.sheets, selectedCells |-> prev.selectedCells])
  IN Normalize([prev EXCEPT !.history = pushed,
                            !.historyIndex = Len(pushed) - 1,
                            !.heap = copy.heap])

saveToHistory(prev) ==
  LET kept == SubSeq(prev.history, 1, prev.historyIndex + 1)
      h == Len(kept) + 1
      copy == JSONClone(prev.sheets, prev.heap, HistBase(h))
      historyEntry == [sheets |-> copy.sheets, selectedCells |-> prev.selectedCells]
      pushed == Append(kept, historyEntry)
      newHistory == IF Len(pushed) > HistoryLimit THEN Tail(pushed) ELSE pushed
  IN Normalize([prev EXCEPT !.history = newHistory,
                            !.historyIndex = Len(newHistory) - 1,
                            !.heap = copy.heap])

-----------------------------------------------------------------------------
(* calculateRowHeight, in half pixels.  charsPerLine is                    *)
(* floor(columnWidth / (fontSize * 0.6)); a font so large that it is 0     *)
(* makes the code's height Infinity and is not among the model's inputs.   *)

WrapCols(row, sheet, hp) ==
  { col \in 0..(totalCols - 1) :
      /\ CellId(row, col) \in DOMAIN sheet.cells
      /\ LET cell == hp[sheet.cells[CellId(row, col)]]
         IN /\ IsSome(cell.format)
            /\ "textWrap" \in DOMAIN Get(cell.format)
            /\ Get(cell.format).textWrap = "wrap"
            /\ cell.value # "" }

\* The required height with the line count taken from the remainder of the
\* length instead of its quotient.
RequiredHeightWrapped(row, col, sheet, hp) ==
  LET cell == hp[sheet.cells[CellId(row, col)]]
      fmt == Get(cell.format)
      columnWidth == IF col \in DOMAIN sheet.columnWidths /\ sheet.columnWidths[col] # 0
                       THEN sheet.columnWidths[col] ELSE DEFAULT_COLUMN_WIDTH
      fontSize == IF "fontSize" \in DOMAIN fmt /\ fmt.fontSize # 0
                    THEN fmt.fontSize ELSE DefaultFontSize
      charsPerLine == (10 * columnWidth) \div (6 * fontSize)
      lines == (Len(cell.value) % charsPerLine) + 1
  IN Maximum(2 * DEFAULT_ROW_HEIGHT, 3 * lines * fontSize + 16)

RequiredHeight(row, col, sheet, hp) ==
  LET cell == hp[sheet.cells[CellId(row, col)]]
      fmt == Get(cell.format)
      columnWidth == IF col \in DOMAIN sheet.columnWidths /\ sheet.columnWidths[col] # 0
                       THEN sheet.columnWidths[col] ELSE DEFAULT_COLUMN_WIDTH
      fontSize == IF "fontSize" \in DOMAIN fmt /\ fmt.fontSize # 0
                    THEN fmt.fontSize ELSE DefaultFontSize
      charsPerLine == (10 * columnWidth) \div (6 * fontSize)
      lines == (Len(cell.value) + charsPerLine - 1) \div charsPerLine
  IN Maximum(2 * DEFAULT_ROW_HEIGHT, 3 * lines * fontSize + 16)

calculateRowHeight(row, sheet, hp) ==
  LET start == IF row \in DOMAIN sheet.rowHeights /\ sheet.rowHeights[row] # 0
                 THEN sheet.rowHeights[row] ELSE 2 * DEFAULT_ROW_HEIGHT
  IN Max({start} \cup {RequiredHeight(row, col, sheet, hp) : col \in WrapCols(row, sheet, hp)})

-----------------------------------------------------------------------------
(* handleCellChange: the updater passed to debouncedUpdate(... , true) *)

CellChangeReplacesCell(prev, cellId, value) ==
  LET s == FindSheet(prev.sheets, prev.activeSheetId)
  IN IF s = 0 THEN prev
     ELSE
       LET activeSheet == prev.sheets[s]
           a == 0 - LiveSlot(s, cellId)
       IN Normalize([prev EXCEPT
            !.sheets = ReplaceSheet(prev.sheets, activeSheet.id,
                         [activeSheet EXCEPT !.cells = (cellId :> a) @@ @]),
            !.heap = (a :> [BlankCell(cellId) EXCEPT !.value = value]) @@ @])

CellChangeUpdate(prev, cellId, value) ==
  LET s == FindSheet(prev.sheets, prev.activeSheetId)
  IN IF s = 0 THEN prev
     ELSE
       LET activeSheet == prev.sheets[s]
           existingCell == CellAt(activeSheet, prev.heap, cellId)
           updatedCell ==
             [id |-> cellId,
              value |-> value,
              format |-> IF IsSome(existingCell) THEN Get(existingCell).format ELSE None,
              dropdown |-> IF IsSome(existingCell) THEN Get(existingCell).dropdown ELSE None,
              link |-> IF IsSome(existingCell) THEN Get(existingCell).link ELSE None,
              merged |-> IF IsSome(existingCell) THEN Get(existingCell).merged ELSE None]
           a == 0 - LiveSlot(s, cellId)
           hp == (a :> updatedCell) @@ prev.heap
           updatedSheet == [activeSheet EXCEPT !.cells = (cellId :> a) @@ @]
           wrap == /\ IsSome(updatedCell.format)
                   /\ "textWrap" \in DOMAIN Get(updatedCell.format)
                   /\ Get(updatedCell.format).textWrap = "wrap"
           row == cellId[1]
           newHeight == calculateRowHeight(row, updatedSheet, hp)
           current == IF row \in DOMAIN updatedSheet.rowHeights
                         /\ updatedSheet.rowHeights[row] # 0
                        THEN updatedSheet.rowHeights[row] ELSE 2 * DEFAULT_ROW_HEIGHT
           resized == IF wrap /\ newHeight > current
                        THEN [updatedSheet EXCEPT !.rowHeights = (row :> newHeight) @@ @]
                        ELSE updatedSheet
       IN Normalize([prev EXCEPT
            !.sheets = ReplaceSheet(prev.sheets, activeSheet.id, resized),
            !.heap = hp])

-----------------------------------------------------------------------------
(* handleCellFormatChange: the updater handed to the 10 ms timer.  The     *)
(* cell ids are state.selectedCells, which never holds a key twice, so the *)
(* forEach iterations are independent.                                     *)

\* The format written with every field of the payload set literally, the
\* boolean ones included.
FormatSetsLiteral(existingFormat, format) ==
  [key \in DOMAIN existingFormat \cup DOMAIN format |->
     IF key \in DOMAIN format THEN format[key] ELSE existingFormat[key]]

FormatNegatesPayload(existingFormat, format) ==
  [key \in DOMAIN existingFormat \cup DOMAIN format |->
     IF key \in DOMAIN format
       THEN IF key \in BooleanFields /\ key \in DOMAIN existingFormat
              THEN ~format[key]
              ELSE format[key]
       ELSE existingFormat[key]]

NewFormat(existingFormat, format) ==
  [key \in DOMAIN existingFormat \cup DOMAIN format |->
     IF key \in DOMAIN format
       THEN IF key \in BooleanFields /\ key \in DOMAIN existingFormat
              THEN ~existingFormat[key]
              ELSE format[key]
       ELSE existingFormat[key]]

FormatUpdate(prev, cellIds, format) ==
  LET s == FindSheet(prev.sheets, prev.activeSheetId)
  IN IF s = 0 THEN prev
     ELSE
       LET activeSheet == prev.sheets[s]
           ids == SeqToSet(cellIds)
           existingCell(cellId) ==
             IF cellId \in DOMAIN activeSheet.cells
               THEN prev.heap[activeSheet.cells[cellId]]
               ELSE [BlankCell(cellId) EXCEPT !.id = cellId]
           existingFormat(cellId) ==
             IF IsSome(existingCell(cellId).format)
               THEN Get(existingCell(cellId).format) ELSE <<>>
           a(cellId) == 0 - LiveSlot(s, cellId)
           hp == [x \in {a(cellId) : cellId \in ids} |->
                    LET cellId == CHOOSE c \in ids : a(c) = x
                    IN [existingCell(cellId) EXCEPT
                          !.format = Some(NewFormat(existingFormat(cellId), format))]]
                 @@ prev.heap
           updatedCells == [cellId \in ids |-> a(cellId)] @@ activeSheet.cells
           affectedRows == IF "textWrap" \in DOMAIN format
                             THEN {cellId[1] : cellId \in ids} ELSE {}
           updatedRowHeights ==
             [row \in affectedRows |->
                calculateRowHeight(row, [activeSheet EXCEPT !.cells = updatedCells], hp)]
             @@ activeSheet.rowHeights
           updatedSheet == [activeSheet EXCEPT !.cells = updatedCells,
                                               !.rowHeights = updatedRowHeights]
       IN Normalize([prev EXCEPT
            !.sheets = ReplaceSheet(prev.sheets, activeSheet.id, updatedSheet),
            !.heap = hp])

-----------------------------------------------------------------------------
(* handleMergeCells and handleUnmergeCells: the setState updaters.  Both   *)
(* write the merged field of the existing Cell objects in place.           *)

OriginDescriptor(rowSpan, colSpan) ==
  [rowSpan |-> rowSpan, colSpan |-> colSpan, isOrigin |-> TRUE, originCell |-> None]

MemberDescriptor(originCellId) ==
  [rowSpan |-> 1, colSpan |-> 1, isOrigin |-> FALSE, originCell |-> Some(originCellId)]

RectCorners(row, col, rowSpan, colSpan) ==
  {CellId(row, col), CellId(row + rowSpan - 1, col + colSpan - 1)}

Rect(row, col, rowSpan, colSpan) ==
  { CellId(r, c) : r \in row..(row + rowSpan - 1), c \in col..(col + colSpan - 1) }

MergeUpdate(prev, cellIds) ==
  LET s == FindSheet(prev.sheets, prev.activeSheetId)
  IN IF s = 0 THEN prev
     ELSE
       LET activeSheet == prev.sheets[s]
           rows == {cellIds[i][1] : i \in DOMAIN cellIds}
           cols == {cellIds[i][2] : i \in DOMAIN cellIds}
           minRow == Min(rows)
           maxRow == Max(rows)
           minCol == Min(cols)
           maxCol == Max(cols)
           originCellId == CellId(minRow, minCol)
           rowSpan == maxRow - minRow + 1
           colSpan == maxCol - minCol + 1
           box == Rect(minRow, minCol, rowSpan, colSpan)
           descriptor(cellId) == IF cellId = originCellId
                                   THEN OriginDescriptor(rowSpan, colSpan)
                                   ELSE MemberDescriptor(originCellId)
           updatedMergedCells == [cellId \in box |-> descriptor(cellId)]
                                   @@ activeSheet.mergedCells
           created == box \ DOMAIN activeSheet.cells
           updatedCells == [cellId \in created |-> 0 - LiveSlot(s, cellId)]
                             @@ activeSheet.cells
           withBlanks == [x \in {updatedCells[cellId] : cellId \in created} |->
                            BlankCell(CHOOSE cellId \in created : updatedCells[cellId] = x)]
                         @@ prev.heap
           \* updatedCells[cellId].merged = updatedMergedCells[cellId], the
           \* origin last
           written == {updatedCells[cellId] : cellId \in box}
           keyOf(x) == IF updatedCells[originCellId] = x THEN originCellId
                       ELSE CHOOSE cellId \in box : updatedCells[cellId] = x
           hp == [x \in DOMAIN withBlanks |->
                    IF x \in written
                      THEN [withBlanks[x] EXCEPT !.merged = Some(descriptor(keyOf(x)))]
                      ELSE withBlanks[x]]
           updatedSheet == [activeSheet EXCEPT !.cells = updatedCells,
                                               !.mergedCells = updatedMergedCells]
       IN Normalize([prev EXCEPT
            !.sheets = ReplaceSheet(prev.sheets, activeSheet.id, updatedSheet),
            !.heap = hp])

\* (A faulty variant: the map is cleared, the cell records are not.)
ClearMapOnly(acc, cells, rect) ==
  [mergedCells |-> Without(acc.mergedCells, rect), heap |-> acc.heap]

\* delete updatedMergedCells[target]; delete updatedCells[target].merged
\* for every target of a rectangle.
ClearRect(acc, cells, rect) ==
  [mergedCells |-> Without(acc.mergedCells, rect),
   heap |-> [x \in DOMAIN acc.heap |->
               IF \E cellId \in rect \cap DOMAIN cells : cells[cellId] = x
                 THEN [acc.heap[x] EXCEPT !.merged = None]
                 ELSE acc.heap[x]]]

RECURSIVE UnmergeLoop(_, _, _, _)
UnmergeLoop(cellIds, i, cells, acc) ==
  IF i > Len(cellIds) THEN acc
  ELSE
    LET cellId == cellIds[i]
        mergedInfo == IF cellId \in DOMAIN acc.mergedCells
                        THEN Some(acc.mergedCells[cellId]) ELSE None
        next ==
          IF IsSome(mergedInfo) /\ Get(mergedInfo).isOrigin
            THEN ClearRect(acc, cells,
                           Rect(cellId[1], cellId[2],
                                Get(mergedInfo).rowSpan, Get(mergedInfo).colSpan))
          ELSE IF IsSome(mergedInfo) /\ IsSome(Get(mergedInfo).originCell)
            THEN LET originCell == Get(Get(mergedInfo).originCell)
                 IN IF originCell \in DOMAIN acc.mergedCells
                      THEN ClearRect(acc, cells,
                                     Rect(originCell[1], originCell[2],
                                          acc.mergedCells[originCell].rowSpan,
                                          acc.mergedCells[originCell].colSpan))
                      ELSE acc
          ELSE acc
    IN UnmergeLoop(cellIds, i + 1, cells, next)

UnmergeUpdate(prev, cellIds) ==
  LET s == FindSheet(prev.sheets, prev.activeSheetId)
  IN IF s = 0 THEN prev
     ELSE
       LET activeSheet == prev.sheets[s]
           done == UnmergeLoop(cellIds, 1, activeSheet.cells,
                               [mergedCells |-> activeSheet.mergedCells,
                                heap |-> prev.heap])
           updatedSheet == [activeSheet EXCEPT !.mergedCells = done.mergedCells]
       IN Normalize([prev EXCEPT
            !.sheets = ReplaceSheet(prev.sheets, activeSheet.id, updatedSheet),
            !.heap = done.heap])

-----------------------------------------------------------------------------
(* handleCellLinkChange and handleCellDropdownChange: the setState updaters *)

LinkUpdate(prev, cellId, link) ==
  LET s == FindSheet(prev.sheets, prev.activeSheetId)
  IN IF s = 0 THEN prev
     ELSE
       LET activeSheet == prev.sheets[s]
           existingCell == IF cellId \in DOMAIN activeSheet.cells
                             THEN prev.heap[activeSheet.cells[cellId]]
                             ELSE BlankCell(cellId)
           updatedCell == [existingCell EXCEPT !.link = link]
           a == 0 - LiveSlot(s, cellId)
       IN Normalize([prev EXCEPT
            !.sheets = ReplaceSheet(prev.sheets, activeSheet.id,
                         [activeSheet EXCEPT !.cells = (cellId :> a) @@ @]),
            !.heap = (a :> updatedCell) @@ @])

\* handleCellDropdownChange's updater taking the first option's value
\* whatever the cell holds.
DropdownOverwrites(prev, cellId, dropdown) ==
  LET s == FindSheet(prev.sheets, prev.activeSheetId)
  IN IF s = 0 THEN prev
     ELSE
       LET activeSheet == prev.sheets[s]
           existingCell == IF cellId \in DOMAIN activeSheet.cells
                             THEN prev.heap[activeSheet.cells[cellId]]
                             ELSE BlankCell(cellId)
           autoValue == /\ IsSome(dropdown)
                        /\ Len(Get(dropdown).options) > 0
           updatedCell == [existingCell EXCEPT
                             !.dropdown = dropdown,
                             !.value = IF autoValue
                                         THEN Get(dropdown).options[1].value ELSE @]
           a == 0 - LiveSlot(s, cellId)
       IN Normalize([prev EXCEPT
            !.sheets = ReplaceSheet(prev.sheets, activeSheet.id,
                         [activeSheet EXCEPT !.cells = (cellId :> a) @@ @]),
            !.heap = (a :> updatedCell) @@ @])

DropdownUpdate(prev, cellId, dropdown) ==
  LET s == FindSheet(prev.sheets, prev.activeSheetId)
  IN IF s = 0 THEN prev
     ELSE
       LET activeSheet == prev.sheets[s]
           existingCell == IF cellId \in DOMAIN activeSheet.cells
                             THEN prev.heap[activeSheet.cells[cellId]]
                             ELSE BlankCell(cellId)
           autoValue == /\ IsSome(dropdown)
                        /\ Len(Get(dropdown).options) > 0
                        /\ existingCell.value = ""
           updatedCell == [existingCell EXCEPT
                             !.dropdown = dropdown,
                             !.value = IF autoValue
                                         THEN Get(dropdown).options[1].value ELSE @]
           a == 0 - LiveSlot(s, cellId)
       IN Normalize([prev EXCEPT
            !.sheets = ReplaceSheet(prev.sheets, activeSheet.id,
                         [activeSheet EXCEPT !.cells = (cellId :> a) @@ @]),
            !.heap = (a :> updatedCell) @@ @])

-----------------------------------------------------------------------------
(* handleFillCells, handlePaste, handleDelete, resizeColumn, resizeRow:    *)
(* the updaters handed to the 10 ms timer.  The keys written are distinct  *)
(* (a fill range, or selectedCells), so the forEach iterations are         *)
(* independent.                                                            *)

HasWrap(cell) ==
  /\ IsSome(cell.format)
  /\ "textWrap" \in DOMAIN Get(cell.format)
  /\ Get(cell.format).textWrap = "wrap"

\* The cells map and heap after storing recs[cellId] as a new object at
\* every key of DOMAIN recs, and the row heights after recomputing `rows`.
WriteCells(prev, s, recs, rows) ==
  LET activeSheet == prev.sheets[s]
      ids == DOMAIN recs
      a(cellId) == 0 - LiveSlot(s, cellId)
      hp == [x \in {a(cellId) : cellId \in ids} |->
               recs[CHOOSE cellId \in ids : a(cellId) = x]] @@ prev.heap
      updatedCells == [cellId \in ids |-> a(cellId)] @@ activeSheet.cells
      updatedRowHeights ==
        [row \in rows |->
           calculateRowHeight(row, [activeSheet EXCEPT !.cells = updatedCells], hp)]
        @@ activeSheet.rowHeights
      updatedSheet == [activeSheet EXCEPT !.cells = updatedCells,
                                          !.rowHeights = updatedRowHeights]
  IN Normalize([prev EXCEPT
       !.sheets = ReplaceSheet(prev.sheets, activeSheet.id, updatedSheet),
       !.heap = hp])

\* handleFillCells' updater reading the last source key instead of the first.
FillFromLast(prev, sourceCellIds, targetCellIds) ==
  LET s == FindSheet(prev.sheets, prev.activeSheetId)
  IN IF s = 0 THEN prev
     ELSE
       LET activeSheet == prev.sheets[s]
           sourceCell == IF Len(sourceCellIds) > 0
                           THEN CellAt(activeSheet, prev.heap,
                                       sourceCellIds[Len(sourceCellIds)])
                           ELSE None
           ids == SeqToSet(targetCellIds)
           filled(cellId) == [Get(sourceCell) EXCEPT !.id = cellId]
       IN IF IsSome(sourceCell)
            THEN WriteCells(prev, s, [cellId \in ids |-> filled(cellId)],
                            IF HasWrap(Get(sourceCell))
                              THEN {cellId[1] : cellId \in ids} ELSE {})
            ELSE prev

FillUpdate(prev, sourceCellIds, targetCellIds) ==
  LET s == FindSheet(prev.sheets, prev.activeSheetId)
  IN IF s = 0 THEN prev
     ELSE
       LET activeSheet == prev.sheets[s]
           sourceCell == IF Len(sourceCellIds) > 0
                           THEN CellAt(activeSheet, prev.heap, sourceCellIds[1])
                           ELSE None
           ids == SeqToSet(targetCellIds)
           filled(cellId) == [Get(sourceCell) EXCEPT !.id = cellId]
       IN IF IsSome(sourceCell)
            THEN WriteCells(prev, s, [cellId \in ids |-> filled(cellId)],
                            IF HasWrap(Get(sourceCell))
                              THEN {cellId[1] : cellId \in ids} ELSE {})
            ELSE prev

\* handlePaste's updater without the wraparound: targets past the end of
\* the clipboard all receive its last record.
PasteClamped(prev) ==
  LET s == FindSheet(prev.sheets, prev.activeSheetId)
      n == Len(prev.copiedCells)
  IN IF n = 0 \/ s = 0 THEN prev
     ELSE
       LET ids == SeqToSet(prev.selectedCells)
           index(cellId) == (CHOOSE i \in DOMAIN prev.selectedCells :
                               prev.selectedCells[i] = cellId) - 1
           sourceCell(cellId) ==
             prev.heap[prev.copiedCells[IF index(cellId) < n THEN index(cellId) + 1 ELSE n]]
           pasted(cellId) == [sourceCell(cellId) EXCEPT !.id = cellId]
       IN WriteCells(prev, s, [cellId \in ids |-> pasted(cellId)],
                     {cellId[1] : cellId \in {c \in ids : HasWrap(sourceCell(c))}})

PasteUpdate(prev) ==
  LET s == FindSheet(prev.sheets, prev.activeSheetId)
      n == Len(prev.copiedCells)
  IN IF n = 0 \/ s = 0 THEN prev
     ELSE
       LET ids == SeqToSet(prev.selectedCells)
           index(cellId) == (CHOOSE i \in DOMAIN prev.selectedCells :
                               prev.selectedCells[i] = cellId) - 1
           sourceCell(cellId) == prev.heap[prev.copiedCells[(index(cellId) % n) + 1]]
           pasted(cellId) == [sourceCell(cellId) EXCEPT !.id = cellId]
       IN WriteCells(prev, s, [cellId \in ids |-> pasted(cellId)],
                     {cellId[1] : cellId \in {c \in ids : HasWrap(sourceCell(c))}})

DeleteBlanksCell(prev) ==
  LET s == FindSheet(prev.sheets, prev.activeSheetId)
  IN IF s = 0 THEN prev
     ELSE WriteCells(prev, s, [cellId \in SeqToSet(prev.selectedCells) |-> BlankCell(cellId)], {})

DeleteUpdate(prev) ==
  LET s == FindSheet(prev.sheets, prev.activeSheetId)
  IN IF s = 0 THEN prev
     ELSE
       LET activeSheet == prev.sheets[s]
           cleared(cellId) ==
             IF cellId \in DOMAIN activeSheet.cells
               THEN [prev.heap[activeSheet.cells[cellId]] EXCEPT !.value = ""]
               ELSE BlankCell(cellId)
       IN WriteCells(prev, s, [cellId \in SeqToSet(prev.selectedCells) |-> cleared(cellId)], {})

ResizeColumnUpdate(prev, col, width) ==
  LET s == FindSheet(prev.sheets, prev.activeSheetId)
  IN IF s = 0 THEN prev
     ELSE [prev EXCEPT !.sheets = ReplaceSheet(prev.sheets, prev.sheets[s].id,
             [prev.sheets[s] EXCEPT !.columnWidths = (col :> width) @@ @])]

ResizeRowUpdate(prev, row, height) ==
  LET s == FindSheet(prev.sheets, prev.activeSheetId)
  IN IF s = 0 THEN prev
     ELSE [prev EXCEPT !.sheets = ReplaceSheet(prev.sheets, prev.sheets[s].id,
             [prev.sheets[s] EXCEPT !.rowHeights = (row :> 2 * height) @@ @])]

-----------------------------------------------------------------------------
(* handleCellSelect, handleCellEdit, handleUndo, handleRedo, handleCopy *)

\* [...new Set(list)]: the first occurrence of every element, in order.
Unique(list) ==
  LET keep == {i \in DOMAIN list : \A j \in 1..(i - 1) : list[j] # list[i]}
  IN [n \in 1..Cardinality(keep) |->
        list[CHOOSE i \in keep : Cardinality({j \in keep : j =< i}) = n]]

SelectUpdate(prev, cellIds, multi) ==
  [prev EXCEPT !.selectedCells =
     IF multi /\ Len(prev.selectedCells) > 0
       THEN Unique(prev.selectedCells \o cellIds)
       ELSE cellIds]

handleCellEdit(prev, cellId) ==
  [prev EXCEPT !.editingCell = cellId,
               !.selectedCells = IF IsSome(cellId) THEN <<Get(cellId)>> ELSE @]

\* The state returned by handleUndo and handleRedo for the snapshot at
\* newIndex (an index from 0, as in the code).
Restore(prev, newIndex) ==
  LET historyState == prev.history[newIndex + 1]
      copy == JSONClone(historyState.sheets, prev.heap, 0)
  IN Normalize([prev EXCEPT !.sheets = copy.sheets,
                            !.heap = copy.heap,
                            !.selectedCells = historyState.selectedCells,
                            !.historyIndex = newIndex,
                            !.editingCell = None])

\* handleUndo with the guard historyIndex >= 0: at the oldest snapshot it
\* installs that snapshot again instead of returning the state.
UndoFromZero(prev) ==
  IF prev.historyIndex >= 0
    THEN Restore(prev, Maximum(prev.historyIndex - 1, 0))
    ELSE prev

handleUndo(prev) ==
  IF prev.historyIndex > 0
    THEN Restore(prev, prev.historyIndex - 1)
    ELSE prev

handleRedo(prev) ==
  IF prev.historyIndex < Len(prev.history) - 1
    THEN Restore(prev, prev.historyIndex + 1)
    ELSE prev

handleCopy(prev) ==
  LET s == FindSheet(prev.sheets, prev.activeSheetId)
  IN IF s = 0 THEN prev
     ELSE
       LET activeSheet == prev.sheets[s]
           placeholders == {i \in DOMAIN prev.selectedCells :
                              prev.selectedCells[i] \notin DOMAIN activeSheet.cells}
           a(i) == IF i \in placeholders
                     THEN 0 - ClipSlot(i)
                     ELSE activeSheet.cells[prev.selectedCells[i]]
       IN Normalize([prev EXCEPT
            !.copiedCells = [i \in DOMAIN prev.selectedCells |-> a(i)],
            !.heap = [x \in {a(i) : i \in placeholders} |->
                        BlankCell(prev.selectedCells[
                          CHOOSE i \in placeholders : a(i) = x])] @@ @])

-----------------------------------------------------------------------------
(* Sheet lifecycle: addSheet, deleteSheet, renameSheet, duplicateSheet,    *)
(* changeSheetColor, and the tab bar's onSheetSelect.  `clock` is the      *)
(* reading of Date.now() when the updater runs.                            *)

SheetId(clock) == "sheet-" \o ToString(clock)

AddSheetSaves(prev, clock) ==
  LET newSheet == EmptySheet(SheetId(clock), "Sheet" \o ToString(Len(prev.sheets) + 1))
  IN saveToHistory([prev EXCEPT !.sheets = Append(prev.sheets, newSheet),
                                !.activeSheetId = newSheet.id])

addSheet(prev, clock) ==
  LET newSheet == EmptySheet(SheetId(clock), "Sheet" \o ToString(Len(prev.sheets) + 1))
  IN [prev EXCEPT !.sheets = Append(prev.sheets, newSheet),
                  !.activeSheetId = newSheet.id]

\* filteredSheets[0].id throws when every sheet carries the deleted id.
deleteSheet(prev, sheetId) ==
  IF Len(prev.sheets) = 1 THEN prev
  ELSE
    LET filteredSheets == SelectSeq(prev.sheets, LAMBDA sh : sh.id # sheetId)
    IN IF prev.activeSheetId = sheetId /\ Len(filteredSheets) = 0
         THEN [prev EXCEPT !.crashed = TRUE]
         ELSE Normalize([prev EXCEPT
                !.sheets = filteredSheets,
                !.activeSheetId = IF prev.activeSheetId = sheetId
                                    THEN filteredSheets[1].id ELSE @])

renameSheet(prev, sheetId, name) ==
  [prev EXCEPT !.sheets =
     [i \in DOMAIN prev.sheets |->
        IF prev.sheets[i].id = sheetId
          THEN [prev.sheets[i] EXCEPT !.name = name] ELSE prev.sheets[i]]]

changeSheetColor(prev, sheetId, color) ==
  [prev EXCEPT !.sheets =
     [i \in DOMAIN prev.sheets |->
        IF prev.sheets[i].id = sheetId
          THEN [prev.sheets[i] EXCEPT !.color = Some(color)] ELSE prev.sheets[i]]]

duplicateSheet(prev, sheetId, clock) ==
  LET s == FindSheet(prev.sheets, sheetId)
  IN IF s = 0 THEN prev
     ELSE
       LET sheetToDuplicate == prev.sheets[s]
           copy == JSONClone(<<sheetToDuplicate>>, prev.heap,
                             Len(prev.sheets) * CellsPerSheet)
           newSheet == [copy.sheets[1] EXCEPT !.id = SheetId(clock),
                                              !.name = sheetToDuplicate.name \o " Copy"]
       IN Normalize([prev EXCEPT !.sheets = Append(prev.sheets, newSheet),
                                 !.activeSheetId = newSheet.id,
                                 !.heap = copy.heap])

selectSheet(prev, sheetId) ==
  [prev EXCEPT !.activeSheetId = sheetId]

-----------------------------------------------------------------------------
(* debouncedUpdate and the handlers built on it.  An updater closure is    *)
(* the record [op, a, b] of its kind and the arguments it captured.        *)

Closure(op, a, b) == [op |-> op, a |-> a, b |-> b]

\* setState(updateFn): the closure applied to the state current at that time.
Apply(fn, prev) ==
  CASE fn.op = "cellChange" -> CellChangeUpdate(prev, fn.a, fn.b)
    [] fn.op = "select" -> SelectUpdate(prev, fn.a, fn.b)
    [] fn.op = "format" -> FormatUpdate(prev, fn.a, fn.b)
    [] fn.op = "fill" -> FillUpdate(prev, fn.a, fn.b)
    [] fn.op = "paste" -> PasteUpdate(prev)
    [] fn.op = "delete" -> DeleteUpdate(prev)
    [] fn.op = "resizeColumn" -> ResizeColumnUpdate(prev, fn.a, fn.b)
    [] fn.op = "resizeRow" -> ResizeRowUpdate(prev, fn.a, fn.b)

debouncedUpdate(prev, updateFn, immediate) ==
  IF immediate
    THEN Apply(updateFn, [prev EXCEPT !.updateTimeout = None])
    ELSE [prev EXCEPT !.updateTimeout = Some(updateFn)]

\* The 10 ms timer fires.
FireTimeout(prev) ==
  Apply(Get(prev.updateTimeout), [prev EXCEPT !.updateTimeout = None])

\* Every pending update has been applied.
Settle(prev) ==
  IF IsSome(prev.updateTimeout) THEN FireTimeout(prev) ELSE prev

\* handleCellChange that never snapshots, whatever saveHistory says.
CellChangeUnsaved(prev, cellId, value, saveHistory) ==
  debouncedUpdate(prev, Closure("cellChange", cellId, value), TRUE)

handleCellChange(prev, cellId, value, saveHistory) ==
  LET changed == debouncedUpdate(prev, Closure("cellChange", cellId, value), TRUE)
  IN IF saveHistory THEN saveToHistory(changed) ELSE changed

FormatSavesPerCell(prev, cellIds, format) ==
  LET once == saveToHistory(debouncedUpdate(prev, Closure("format", cellIds, format), FALSE))
  IN IF Len(cellIds) > 1 THEN saveToHistory(once) ELSE once

handleCellFormatChange(prev, cellIds, format) ==
  saveToHistory(debouncedUpdate(prev, Closure("format", cellIds, format), FALSE))

handleMergeCells(prev, cellIds) ==
  IF Len(cellIds) < 2 THEN prev
  ELSE saveToHistory(MergeUpdate(prev, cellIds))

handleUnmergeCells(prev, cellIds) ==
  saveToHistory(UnmergeUpdate(prev, cellIds))

handleCellLinkChange(prev, cellId, link) ==
  saveToHistory(LinkUpdate(prev, cellId, link))

handleCellDropdownChange(prev, cellId, dropdown) ==
  saveToHistory(DropdownUpdate(prev, cellId, dropdown))

handleFillCells(prev, sourceCellIds, targetCellIds) ==
  saveToHistory(debouncedUpdate(prev, Closure("fill", sourceCellIds, targetCellIds), FALSE))

handleCellSelect(prev, cellIds, multi) ==
  debouncedUpdate(prev, Closure("select", cellIds, multi), TRUE)

handlePaste(prev) ==
  saveToHistory(debouncedUpdate(prev, Closure("paste", None, None), FALSE))

handleDelete(prev) ==
  saveToHistory(debouncedUpdate(prev, Closure("delete", None, None), FALSE))

resizeColumn(prev, col, width) ==
  debouncedUpdate(prev, Closure("resizeColumn", col, width), FALSE)

resizeRow(prev, row, height) ==
  debouncedUpdate(prev, Closure("resizeRow", row, height), FALSE)

-----------------------------------------------------------------------------
(* The grid's and the toolbar's guards on merging *)

\* SpreadsheetGrid.canMergeCells: shown in the context menu only when true.
canMergeCells(sheet, selected) ==
  /\ Len(selected) >= 2
  /\ \A i \in DOMAIN selected : selected[i] \notin DOMAIN sheet.mergedCells
  /\ LET rows == {selected[i][1] : i \in DOMAIN selected}
         cols == {selected[i][2] : i \in DOMAIN selected}
     IN Len(selected) = (Max(rows) - Min(rows) + 1) * (Max(cols) - Min(cols) + 1)

canUnmergeCells(sheet, selected) ==
  \E i \in DOMAIN selected :
    /\ selected[i] \in DOMAIN sheet.mergedCells
    /\ sheet.mergedCells[selected[i]].isOrigin

\* SpreadsheetGrid.getSelectedRange
getSelectedRange(start, end) ==
  LET minRow == Min({start[1], end[1]})
      maxRow == Max({start[1], end[1]})
      minCol == Min({start[2], end[2]})
      maxCol == Max({start[2], end[2]})
      width == maxCol - minCol + 1
  IN [n \in 1..((maxRow - minRow + 1) * width) |->
        CellId(minRow + ((n - 1) \div width), minCol + ((n - 1) % width))]

-----------------------------------------------------------------------------
(* The state as one record, and its installation as the next state *)

Cur ==
  [sheets |-> sheets, activeSheetId |-> activeSheetId, selectedCells |-> selectedCells,
   editingCell |-> editingCell, copiedCells |-> copiedCells, history |-> history,
   historyIndex |-> historyIndex, heap |-> heap, updateTimeout |-> updateTimeout,
   crashed |-> crashed]

Install(next) ==
  /\ sheets' = next.sheets
  /\ activeSheetId' = next.activeSheetId
  /\ selectedCells' = next.selectedCells
  /\ editingCell' = next.editingCell
  /\ copiedCells' = next.copiedCells
  /\ history' = next.history
  /\ historyIndex' = next.historyIndex
  /\ heap' = next.heap
  /\ updateTimeout' = next.updateTimeout
  /\ crashed' = next.crashed

\* The sheet the grid is rendered for (Spreadsheet: activeSheet && <SpreadsheetGrid>).
ActiveIdx == FindSheet(sheets, activeSheetId)

\* DropdownEditor: useState([{value: "option1", ...}]).
Option(n, backgroundColor) ==
  [value |-> "option" \o ToString(n), label |-> "Option " \o ToString(n),
   backgroundColor |-> backgroundColor, textColor |-> "#000000"]

initialOptions == <<Option(1, "#FFFFFF")>>

\* SpreadsheetGrid's useState hooks for the pointer: nothing is dragged,
\* filled or resized.
initialGrid ==
  [isDragging |-> FALSE, dragStart |-> None, isFillDragging |-> FALSE,
   fillRange |-> <<>>, isResizingColumn |-> None, isResizingRow |-> None,
   lastClickCell |-> None]

\* useState(initialState); Date.now() reads some value that is not 1.
Init ==
  /\ sheets = initialState.sheets
  /\ activeSheetId = initialState.activeSheetId
  /\ selectedCells = initialState.selectedCells
  /\ editingCell = initialState.editingCell
  /\ copiedCells = initialState.copiedCells
  /\ history = initialState.history
  /\ historyIndex = initialState.historyIndex
  /\ heap = initialState.heap
  /\ updateTimeout = initialState.updateTimeout
  /\ crashed = initialState.crashed
  /\ now = 2
  /\ nMut = 0
  /\ typingBuffer = ""
  /\ typingCellId = None
  /\ localValue = ""
  /\ options = initialOptions
  /\ grid = initialGrid

-----------------------------------------------------------------------------
(* Actions: one per user gesture or timer event.  A gesture's setState     *)
(* calls are applied in order before the next event is handled.            *)

Quiet == UNCHANGED <<now, nMut, typingBuffer, typingCellId, localValue, options, grid>>
Counted ==
  nMut' = nMut + 1 /\ UNCHANGED <<now, typingBuffer, typingCellId, localValue, options, grid>>
Within(limit) == nMut < limit

\* An edit is committed, or the context menu's Clear is chosen.
CellChange(cellId, value) ==
  /\ ~crashed /\ ActiveIdx # 0
  /\ Install(handleCellChange(Cur, cellId, value, TRUE))
  /\ Counted

\* Toolbar onFormatChange, or Ctrl+B / I / U.
FormatChange(format) ==
  /\ ~crashed
  /\ Len(selectedCells) > 0
  /\ Install(handleCellFormatChange(Cur, selectedCells, format))
  /\ Counted

\* Context menu "Merge Cells", offered when canMergeCells().
MenuMergeCells ==
  /\ ~crashed /\ ActiveIdx # 0
  /\ canMergeCells(sheets[ActiveIdx], selectedCells)
  /\ Install(handleMergeCells(Cur, selectedCells))
  /\ Counted

\* Toolbar onMergeCells.
ToolbarMergeCells ==
  /\ ~crashed
  /\ Len(selectedCells) > 1
  /\ Install(handleMergeCells(Cur, selectedCells))
  /\ Counted

\* Context menu "Unmerge Cells", offered when canUnmergeCells().
MenuUnmergeCells ==
  /\ ~crashed /\ ActiveIdx # 0
  /\ canUnmergeCells(sheets[ActiveIdx], selectedCells)
  /\ Install(handleUnmergeCells(Cur, selectedCells))
  /\ Counted

\* Toolbar onUnmergeCells.
ToolbarUnmergeCells ==
  /\ ~crashed
  /\ Len(selectedCells) > 0
  /\ Install(handleUnmergeCells(Cur, selectedCells))
  /\ Counted

\* LinkDialog save for the cell chosen in the context menu.
LinkChange(cellId, link) ==
  /\ ~crashed /\ ActiveIdx # 0
  /\ Install(handleCellLinkChange(Cur, cellId, Some(link)))
  /\ Counted

\* DropdownEditor save, or the context menu's "Remove Dropdown".
DropdownChange(cellId, dropdown) ==
  /\ ~crashed /\ ActiveIdx # 0
  /\ IsSome(dropdown) \/ (/\ cellId \in DOMAIN sheets[ActiveIdx].cells
                          /\ IsSome(heap[sheets[ActiveIdx].cells[cellId]].dropdown))
  /\ Install(handleCellDropdownChange(Cur, cellId, dropdown))
  /\ Counted

\* Pointer-up after a fill drag over the non-empty range `target`.
FillCells(target) ==
  /\ ~crashed /\ ActiveIdx # 0
  /\ Len(selectedCells) > 0
  /\ Len(target) > 0
  /\ \A i \in DOMAIN target : target[i] \notin SeqToSet(selectedCells)
  /\ Install(handleFillCells(Cur, selectedCells, target))
  /\ Counted

\* A click on a cell, or a drag over a range.
CellSelect(cellIds, multi) ==
  /\ ~crashed /\ ActiveIdx # 0
  /\ Install(handleCellSelect(Cur, cellIds, multi))
  /\ Quiet

Undo ==
  /\ ~crashed
  /\ Install(handleUndo(Cur))
  /\ Quiet

Redo ==
  /\ ~crashed
  /\ Install(handleRedo(Cur))
  /\ Quiet

Copy ==
  /\ ~crashed /\ ActiveIdx # 0
  /\ editingCell = None
  /\ Install(handleCopy(Cur))
  /\ Quiet

Paste ==
  /\ ~crashed /\ ActiveIdx # 0
  /\ editingCell = None
  /\ Install(handlePaste(Cur))
  /\ Counted

\* Delete or Backspace with a selection.
Delete ==
  /\ ~crashed /\ ActiveIdx # 0
  /\ editingCell = None
  /\ Len(selectedCells) > 0
  /\ Install(handleDelete(Cur))
  /\ Counted

\* The 10 ms timer of debouncedUpdate fires.
Timeout ==
  /\ ~crashed
  /\ IsSome(updateTimeout)
  /\ Install(FireTimeout(Cur))
  /\ Quiet

\* Date.now() advances.
Tick ==
  /\ now < MaxClock
  /\ now' = now + 1
  /\ UNCHANGED <<sheets, activeSheetId, selectedCells, editingCell, copiedCells,
                 history, historyIndex, heap, updateTimeout, crashed, nMut,
                 typingBuffer, typingCellId, localValue, options, grid>>

AddSheet ==
  /\ ~crashed
  /\ Len(sheets) < MaxSheets
  /\ Install(addSheet(Cur, now))
  /\ Quiet

DeleteSheet(sheetId) ==
  /\ ~crashed
  /\ \E i \in DOMAIN sheets : sheets[i].id = sheetId
  /\ Install(deleteSheet(Cur, sheetId))
  /\ Quiet

DuplicateSheet(sheetId) ==
  /\ ~crashed
  /\ Len(sheets) < MaxSheets
  /\ \E i \in DOMAIN sheets : sheets[i].id = sheetId
  /\ Install(duplicateSheet(Cur, sheetId, now))
  /\ Quiet

\* A click on a sheet tab.
SheetSelect(sheetId) ==
  /\ ~crashed
  /\ \E i \in DOMAIN sheets : sheets[i].id = sheetId
  /\ Install(selectSheet(Cur, sheetId))
  /\ Quiet

-----------------------------------------------------------------------------
(* Spec: editing one sheet of two cells with undo and redo: an immediate   *)
(* mutation (a value edit), a debounced one (a format toggle), the         *)
(* in-place writers (merge and unmerge), and copy, which makes the         *)
(* clipboard share the live Cell objects.                                  *)

K00 == CellId(0, 0)
K01 == CellId(0, 1)
K10 == CellId(1, 0)
K11 == CellId(1, 1)
BoldFormat == [bold |-> TRUE]

Next ==
  \/ Within(MaxMut) /\ CellChange(K00, "a")
  \/ Within(MaxMut) /\ FormatChange(BoldFormat)
  \/ Within(MaxMut) /\ ToolbarMergeCells
  \/ Within(MaxMut) /\ ToolbarUnmergeCells
  \/ \E cellIds \in {<<K00>>, <<K00, K01>>} : CellSelect(cellIds, FALSE)
  \/ Copy
  \/ Undo
  \/ Redo
  \/ Timeout

Spec == Init /\ [][Next]_vars

-----------------------------------------------------------------------------
(* Properties of undo, redo and the history, stated over Spec *)

SampleLink == [url |-> "u", title |-> "t"]
SampleDropdown == [id |-> "d", options |-> <<[value |-> "x", label |-> "x"]>>]

\* The nine history-producing operations, each called the way its caller
\* in the UI calls it, and the ones the UI can invoke in prev.
Mutation(prev, op) ==
  CASE op = "setCellValue" -> handleCellChange(prev, K00, "a", TRUE)
    [] op = "applyFormat" -> handleCellFormatChange(prev, prev.selectedCells, BoldFormat)
    [] op = "mergeCells" -> handleMergeCells(prev, prev.selectedCells)
    [] op = "unmergeCells" -> handleUnmergeCells(prev, prev.selectedCells)
    [] op = "setLink" -> handleCellLinkChange(prev, K00, Some(SampleLink))
    [] op = "setDropdown" -> handleCellDropdownChange(prev, K00, Some(SampleDropdown))
    [] op = "fillCells" -> handleFillCells(prev, prev.selectedCells, <<K10>>)
    [] op = "paste" -> handlePaste(prev)
    [] op = "deleteSelection" -> handleDelete(prev)

MutationOps(prev) ==
  {"setCellValue", "setLink", "setDropdown", "paste"}
  \cup (IF Len(prev.selectedCells) > 0
          THEN {"applyFormat", "unmergeCells", "fillCells", "deleteSelection"} ELSE {})
  \cup (IF Len(prev.selectedCells) > 1 THEN {"mergeCells"} ELSE {})

Settled == updateTimeout = None /\ ~crashed

\* C1: from every reachable settled state S, for every history-producing
\* mutation M, doing M, letting the pending update run and then undoing
\* gives sheets and selectedCells deep-equal to those of S.
UndoInvertsLastMutation ==
  Settled =>
    \A op \in MutationOps(Cur) :
      LET after == handleUndo(Settle(Mutation(Cur, op)))
      IN /\ Deref(after.sheets, after.heap) = Deref(sheets, heap)
         /\ after.selectedCells = selectedCells

\* C2: from every reachable settled state, for every history-producing
\* mutation M, once M has settled, undo followed by redo gives sheets
\* deep-equal to the sheets right after M.
RedoInvertsUndo ==
  Settled =>
    \A op \in MutationOps(Cur) :
      LET after == Settle(Mutation(Cur, op))
          back == handleRedo(handleUndo(after))
      IN Deref(back.sheets, back.heap) = Deref(after.sheets, after.heap)

\* The Cell objects a list of sheets refers to.
Addrs(ss) == UNION { { ss[s].cells[k] : k \in DOMAIN ss[s].cells } : s \in DOMAIN ss }

\* What a history entry holds, by value.
SnapshotContent(hist, hp, h) ==
  [sheets |-> Deref(hist[h].sheets, hp), selectedCells |-> hist[h].selectedCells]

SnapshotsShareNothing ==
  \A h \in DOMAIN history :
    /\ Addrs(history[h].sheets) \cap Addrs(sheets) = {}
    /\ Addrs(history[h].sheets) \cap SeqToSet(copiedCells) = {}
    /\ \A g \in DOMAIN history \ {h} :
         Addrs(history[h].sheets) \cap Addrs(history[g].sheets) = {}

\* The entries a step keeps: all of them, or on a save those up to the
\* cursor, moved down by one when the save evicts the oldest.
SnapshotsKeepContent ==
  LET saving == nMut' # nMut
      last == IF saving THEN historyIndex + 1 ELSE Len(history)
      shift == IF saving /\ historyIndex + 1 = HistoryLimit THEN 1 ELSE 0
  IN \A h \in (1 + shift)..last :
       /\ h - shift \in DOMAIN history'
       /\ SnapshotContent(history', heap', h - shift) = SnapshotContent(history, heap, h)

\* C8: no history snapshot shares a Cell object with the live sheets, the
\* clipboard or another snapshot (so undo and redo install copies), and no
\* step changes the content of a snapshot that stays in the history.
HistoryDecoupled == []SnapshotsShareNothing /\ [][SnapshotsKeepContent]_vars

\* A merge has written the live cell 0-0 in place after an undo installed
\* the first snapshot, and that snapshot still holds 0-0 unmerged.
SnapshotSurvivesMerge ==
  /\ Len(history) = 2 /\ nMut = 3 /\ Len(sheets) = 1
  /\ K00 \in DOMAIN sheets[1].cells
  /\ IsSome(heap[sheets[1].cells[K00]].merged)
  /\ K00 \in DOMAIN history[1].sheets[1].cells
  /\ heap[history[1].sheets[1].cells[K00]].merged = None

\* C10: a history-producing mutation keeps the entries up to the cursor
\* (less the oldest when the limit is passed), appends one entry, leaves the
\* cursor on the last index, and a redo right after it changes nothing.
BranchDiscarded ==
  [][nMut' = nMut + 1 =>
       LET kept == historyIndex + 1
           shift == IF kept + 1 > HistoryLimit THEN 1 ELSE 0
       IN /\ Len(history') = kept + 1 - shift
          /\ historyIndex' = Len(history') - 1
          /\ \A h \in (1 + shift)..kept :
               SnapshotContent(history', heap', h - shift)
                 = SnapshotContent(history, heap, h)
          /\ handleRedo(Cur)' = Cur']_vars

\* A mutation has been made after an undo: more mutations than entries, and
\* the cursor on the last entry.
RedoBranchGone ==
  /\ nMut > Len(history)
  /\ Len(history) >= 2
  /\ historyIndex = Len(history) - 1

-----------------------------------------------------------------------------
(* SpecSheets: the sheet tabs (add, delete, duplicate, select) together    *)
(* with an edit and undo and redo.                                         *)

SheetIds == {sheets[i].id : i \in DOMAIN sheets}

NextSheets ==
  \/ Within(MaxMut) /\ CellChange(K00, "a")
  \/ AddSheet
  \/ \E sheetId \in SheetIds : DeleteSheet(sheetId)
  \/ \E sheetId \in SheetIds : DuplicateSheet(sheetId)
  \/ \E sheetId \in SheetIds : SheetSelect(sheetId)
  \/ Tick
  \/ Undo
  \/ Redo

SpecSheets == Init /\ [][NextSheets]_vars

\* C3: in every reachable state activeSheetId is the id of a sheet of the
\* sheets list.
ActiveSheetPresent == \E i \in DOMAIN sheets : sheets[i].id = activeSheetId

-----------------------------------------------------------------------------
(* SpecHist: a long run of edits of one cell, the n-th edit typing the     *)
(* numeral n, with undo and redo between them.  Edits are made with the    *)
(* cursor on the last entry, so that the entries are consecutive edits.    *)

NextHist ==
  \/ /\ Within(LongRun)
     /\ historyIndex = Len(history) - 1
     /\ CellChange(K00, ToString(nMut + 1))
  \/ Undo
  \/ Redo

SpecHist == Init /\ [][NextHist]_vars

\* The value shown at a key: the record's value, or "" for a key with no record.
ValueAt(sheet, hp, cellId) ==
  IF cellId \in DOMAIN sheet.cells THEN hp[sheet.cells[cellId]].value ELSE ""

\* C4: the history holds at most 50 entries; they are the latest edits, in
\* order (the oldest is the one evicted); and whatever undo and redo have
\* done, the live sheet is the retained snapshot under the cursor, which is
\* never below index 0.
HistoryBounded ==
  /\ Len(history) <= HistoryLimit
  /\ Len(history) = IF nMut < HistoryLimit THEN nMut ELSE HistoryLimit
  /\ \A h \in DOMAIN history :
       ValueAt(history[h].sheets[1], heap, K00) = ToString(nMut - Len(history) + h)
  /\ nMut > 0 =>
       /\ historyIndex \in 0..(Len(history) - 1)
       /\ ValueAt(sheets[1], heap, K00)
            = ValueAt(history[historyIndex + 1].sheets[1], heap, K00)
       /\ handleUndo(Cur).historyIndex >= 0

\* More than 50 edits have been made and undo has gone back as far as it can.
UndoneToOldestRetained ==
  /\ nMut > HistoryLimit
  /\ historyIndex = 0
  /\ ValueAt(sheets[1], heap, K00) = ToString(nMut - HistoryLimit + 1)

-----------------------------------------------------------------------------
(* SpecMerge: selecting ranges of a 2 x 2 corner of the grid and merging   *)
(* and unmerging them from the context menu and from the toolbar.          *)

Corner == {K00, K01, K10, K11}

\* The pointer drags of this specification, as <<start, end>>: the top row,
\* the left column, the whole corner, and a click on 0-1.
Drags == {<<K00, K01>>, <<K00, K10>>, <<K00, K11>>, <<K01, K01>>}

\* The ranges of the corner, each as getSelectedRange lists it.
CornerRanges == {getSelectedRange(start, end) : start \in Corner, end \in Corner}

NextMerge ==
  \/ \E drag \in Drags : CellSelect(getSelectedRange(drag[1], drag[2]), FALSE)
  \/ Within(MaxMut) /\ CellChange(K00, "a")
  \/ Within(MaxMut) /\ MenuMergeCells
  \/ Within(MaxMut) /\ ToolbarMergeCells
  \/ Within(MaxMut) /\ MenuUnmergeCells
  \/ Within(MaxMut) /\ ToolbarUnmergeCells

SpecMerge == Init /\ [][NextMerge]_vars

\* C5: on every sheet, every non-origin descriptor names an origin whose
\* descriptor is an origin descriptor and whose rectangle holds the member,
\* and no key lies in the rectangles of two origins.
MergeDescriptorsConsistent ==
  \A s \in DOMAIN sheets :
    LET mc == sheets[s].mergedCells
        origins == {k \in DOMAIN mc : mc[k].isOrigin}
        rectOf(o) == Rect(o[1], o[2], mc[o].rowSpan, mc[o].colSpan)
    IN /\ \A k \in DOMAIN mc \ origins :
            /\ IsSome(mc[k].originCell)
            /\ Get(mc[k].originCell) \in origins
            /\ k \in rectOf(Get(mc[k].originCell))
       /\ \A o1 \in origins, o2 \in origins :
            o1 # o2 => rectOf(o1) \cap rectOf(o2) = {}

\* The bounding box of a list of keys.
BoundingBox(cellIds) ==
  LET rows == {cellIds[i][1] : i \in DOMAIN cellIds}
      cols == {cellIds[i][2] : i \in DOMAIN cellIds}
  IN Rect(Min(rows), Min(cols), Max(rows) - Min(rows) + 1, Max(cols) - Min(cols) + 1)

\* C6: a merge asked for from the context menu or from the toolbar, when a
\* key of the selection's bounding box already has a merge descriptor,
\* leaves mergedCells as it was.
MergeRefusedOnMerged ==
  [][((MenuMergeCells \/ ToolbarMergeCells)
        /\ ActiveIdx # 0
        /\ BoundingBox(selectedCells) \cap DOMAIN sheets[ActiveIdx].mergedCells # {})
      => sheets'[ActiveIdx].mergedCells = sheets[ActiveIdx].mergedCells]_vars

\* C7: from every reachable state, for every rectangle of at least 2 keys
\* none of which has a merge descriptor, merging it and then unmerging its
\* origin leaves no key of it with a descriptor, in mergedCells or in its
\* record, and every key of it showing the value it showed before.
MergeUnmergeRoundTrip ==
  (ActiveIdx # 0 /\ ~crashed) =>
    \A rect \in CornerRanges :
      LET before == sheets[ActiveIdx]
      IN (Len(rect) >= 2 /\ SeqToSet(rect) \cap DOMAIN before.mergedCells = {}) =>
           LET merged == handleMergeCells(Cur, rect)
               back == handleUnmergeCells(merged, <<rect[1]>>)
               after == back.sheets[ActiveIdx]
           IN /\ rect[1] \in DOMAIN merged.sheets[ActiveIdx].mergedCells
              /\ \A k \in SeqToSet(rect) :
                   /\ k \notin DOMAIN after.mergedCells
                   /\ k \in DOMAIN after.cells
                   /\ back.heap[after.cells[k]].merged = None
                   /\ ValueAt(after, back.heap, k) = ValueAt(before, heap, k)

\* 0-0 holds "a", 0-1 has the blank record a merge gave it, and an unmerge
\* has removed every descriptor.
MergedThenUnmerged ==
  /\ nMut = 3
  /\ sheets[1].mergedCells = <<>>
  /\ ValueAt(sheets[1], heap, K00) = "a"
  /\ K01 \in DOMAIN sheets[1].cells
  /\ heap[sheets[1].cells[K01]].merged = None
  /\ heap[sheets[1].cells[K00]].merged = None

-----------------------------------------------------------------------------
(* SpecClip: copy and paste among the mutations of one sheet of two cells  *)

NextClip ==
  \/ \E cellIds \in {<<K00>>, <<K00, K01>>} : CellSelect(cellIds, FALSE)
  \/ Copy
  \/ Within(MaxMut) /\ Paste
  \/ Within(MaxMut) /\ Delete
  \/ Within(MaxMut) /\ CellChange(K00, "a")
  \/ Within(MaxMut) /\ FormatChange(BoldFormat)
  \/ Within(MaxMut) /\ ToolbarMergeCells
  \/ Within(MaxMut) /\ ToolbarUnmergeCells
  \/ Timeout

SpecClip == Init /\ [][NextClip]_vars

\* The records of the clipboard, by value.
ClipRecords == [i \in DOMAIN copiedCells |-> heap[copiedCells[i]]]

\* C9: no history-producing mutation, and no update it left to the timer,
\* changes a field of a record of the clipboard.
ClipboardIsValueCopy ==
  [][(nMut' = nMut + 1 \/ Timeout) => ClipRecords' = ClipRecords]_vars

-----------------------------------------------------------------------------
(* SpecScenario: "Hello" typed into 0-0, copied and pasted over 1-0..1-1,  *)
(* with undo and redo.                                                     *)

ScenarioSelections == {<<K00>>, <<K10, K11>>}

NextScenario ==
  \/ Within(MaxMut) /\ CellChange(K00, "Hello")
  \/ \E cellIds \in ScenarioSelections : CellSelect(cellIds, FALSE)
  \/ Copy
  \/ Within(MaxMut) /\ Paste
  \/ Timeout
  \/ Undo
  \/ Redo

SpecScenario == Init /\ [][NextScenario]_vars

\* C11: undo at the first snapshot or before any snapshot (historyIndex <= 0)
\* and redo at the last snapshot (historyIndex >= history.length - 1) return
\* the whole state unchanged: sheets, selection, editing cell, history and
\* cursor, with no error raised.
BoundaryNoOp ==
  /\ historyIndex <= 0 => handleUndo(Cur) = Cur
  /\ historyIndex >= Len(history) - 1 => handleRedo(Cur) = Cur

\* Undone back to the first of several snapshots while the live sheet
\* differs from that snapshot's successor, and undo asked once more.
UndoAtOldest ==
  /\ historyIndex = 0
  /\ Len(history) >= 2
  /\ Settled
  /\ handleUndo(Cur) = Cur

\* C12: the degenerate mutations return the state unchanged, history and
\* cursor included: a merge of fewer than 2 keys, a fill whose first source
\* key has no record, and a paste while the clipboard is empty.
DegenerateNoOp ==
  Settled /\ ActiveIdx # 0 =>
    /\ handleMergeCells(Cur, <<>>) = Cur
    /\ handleMergeCells(Cur, <<K00>>) = Cur
    /\ K01 \notin DOMAIN sheets[ActiveIdx].cells =>
         Settle(handleFillCells(Cur, <<K01, K00>>, <<K10>>)) = Cur
    /\ Len(copiedCells) = 0 => Settle(handlePaste(Cur)) = Cur

-----------------------------------------------------------------------------
(* SpecFormat: the bold toggle over selections of one and two cells, one   *)
(* of which may hold a value.                                              *)

NextFormat ==
  \/ \E cellIds \in {<<K00>>, <<K00, K01>>} : CellSelect(cellIds, FALSE)
  \/ Within(MaxMut) /\ CellChange(K00, "a")
  \/ Within(MaxMut) /\ FormatChange(BoldFormat)
  \/ Timeout

SpecFormat == Init /\ [][NextFormat]_vars

\* The weight a cell is drawn with: bold only when format.bold is true; a
\* key with no record, no format or no bold field is drawn normal.
BoldAt(world, cellId) ==
  LET sheet == world.sheets[FindSheet(world.sheets, world.activeSheetId)]
  IN /\ cellId \in DOMAIN sheet.cells
     /\ IsSome(world.heap[sheet.cells[cellId]].format)
     /\ "bold" \in DOMAIN Get(world.heap[sheet.cells[cellId]].format)
     /\ Get(world.heap[sheet.cells[cellId]].format).bold

\* The key has no record, or a record without a format.
Unformatted(world, cellId) ==
  LET sheet == world.sheets[FindSheet(world.sheets, world.activeSheetId)]
  IN cellId \in DOMAIN sheet.cells => world.heap[sheet.cells[cellId]].format = None

\* C13: toggle symmetry.  The same boolean toggle {bold: true} applied
\* twice to cells that had no format, each application settled before the
\* next, leaves bold as it was before the first.
ToggleSymmetry ==
  Settled /\ ActiveIdx # 0 =>
    \A cellIds \in {<<K00>>, <<K01>>, <<K00, K01>>} :
      (\A i \in DOMAIN cellIds : Unformatted(Cur, cellIds[i])) =>
        LET once == Settle(handleCellFormatChange(Cur, cellIds, BoldFormat))
            twice == Settle(handleCellFormatChange(once, cellIds, BoldFormat))
        IN \A i \in DOMAIN cellIds : BoldAt(twice, cellIds[i]) = BoldAt(Cur, cellIds[i])

\* Bold was toggled twice on 0-0, which had no format: the field is stored
\* as false.
ToggledTwice ==
  /\ Settled /\ ActiveIdx # 0
  /\ K00 \in DOMAIN sheets[ActiveIdx].cells
  /\ heap[sheets[ActiveIdx].cells[K00]].format = Some([bold |-> FALSE])
  /\ ~BoldAt(Cur, K00)

-----------------------------------------------------------------------------
(* SpecPaste: the values "a" and "b" in 0-0 and 0-1, copied and pasted     *)
(* over selections of two and five cells.                                  *)

Row1Five == getSelectedRange(CellId(1, 0), CellId(1, 4))
PasteSelections == {<<K00, K01>>, Row1Five}

NextPaste ==
  \/ Within(MaxMut) /\ CellChange(K00, "a")
  \/ Within(MaxMut) /\ CellChange(K01, "b")
  \/ \E cellIds \in PasteSelections : CellSelect(cellIds, FALSE)
  \/ Copy
  \/ Within(MaxMut) /\ Paste
  \/ Timeout

SpecPaste == Init /\ [][NextPaste]_vars

\* C14: paste tiles the clipboard.  With n > 0 records on the clipboard,
\* the selected key at offset q * n + r (r < n) holds, once the paste has
\* settled, a record with its own key as id and the value of clipboard
\* record r: with 2 records and 5 targets, even offsets get the first and
\* odd offsets the second.
PasteTiles ==
  Settled /\ ActiveIdx # 0 /\ Len(copiedCells) > 0 =>
    LET n == Len(copiedCells)
        after == Settle(handlePaste(Cur))
        sheet == after.sheets[FindSheet(after.sheets, after.activeSheetId)]
    IN \A q \in 0..Len(selectedCells), r \in 0..(n - 1) :
         q * n + r < Len(selectedCells) =>
           LET cellId == selectedCells[q * n + r + 1]
           IN /\ cellId \in DOMAIN sheet.cells
              /\ after.heap[sheet.cells[cellId]].id = cellId
              /\ after.heap[sheet.cells[cellId]].value = heap[copiedCells[r + 1]].value

\* The clipboard ("a", "b") was pasted over 1-0..1-4: the row reads
\* a, b, a, b, a.
PastedOverFive ==
  /\ Settled /\ ActiveIdx # 0
  /\ Len(copiedCells) = 2
  /\ selectedCells = Row1Five
  /\ \A col \in 0..4 :
       /\ CellId(1, col) \in DOMAIN sheets[ActiveIdx].cells
       /\ ValueAt(sheets[ActiveIdx], heap, CellId(1, col)) =
            IF col % 2 = 0 THEN "a" ELSE "b"

-----------------------------------------------------------------------------
(* SpecFill: the values "a" and "b" in 0-0 and 0-1, a selection of one or  *)
(* both of them, and fill drags from the selection down to row 1.          *)

FillSelections == {<<K00>>, <<K00, K01>>}
FillRanges == {<<K10>>, <<K10, K11>>, <<K01, K10, K11>>}

NextFill ==
  \/ Within(MaxMut) /\ CellChange(K00, "a")
  \/ Within(MaxMut) /\ CellChange(K01, "b")
  \/ \E cellIds \in FillSelections : CellSelect(cellIds, FALSE)
  \/ Within(MaxMut) /\ \E target \in FillRanges : FillCells(target)
  \/ Timeout

SpecFill == Init /\ [][NextFill]_vars

\* C15: fill reads the first source key only.  When that key has a record,
\* every target key holds its value once the fill has settled, whatever the
\* other source keys hold, and the record at the source key is as before.
FillFromFirst ==
  Settled /\ ActiveIdx # 0 =>
    \A sourceCellIds \in FillSelections \cup {<<K01, K00>>} :
      \A targetCellIds \in FillRanges :
        (/\ sourceCellIds[1] \in DOMAIN sheets[ActiveIdx].cells
         /\ SeqToSet(sourceCellIds) \cap SeqToSet(targetCellIds) = {}) =>
          LET after == Settle(handleFillCells(Cur, sourceCellIds, targetCellIds))
              sheet == after.sheets[FindSheet(after.sheets, after.activeSheetId)]
          IN /\ \A i \in DOMAIN targetCellIds :
                  /\ targetCellIds[i] \in DOMAIN sheet.cells
                  /\ ValueAt(sheet, after.heap, targetCellIds[i]) =
                       ValueAt(sheets[ActiveIdx], heap, sourceCellIds[1])
             /\ CellAt(sheet, after.heap, sourceCellIds[1]) =
                  CellAt(sheets[ActiveIdx], heap, sourceCellIds[1])

\* The selection 0-0, 0-1 ("a", "b") was dragged down over 1-0 and 1-1:
\* both hold "a", and the sources are as they were.
FilledFromFirstOfTwo ==
  /\ Settled /\ ActiveIdx # 0
  /\ selectedCells = <<K00, K01>>
  /\ ValueAt(sheets[ActiveIdx], heap, K00) = "a"
  /\ ValueAt(sheets[ActiveIdx], heap, K01) = "b"
  /\ ValueAt(sheets[ActiveIdx], heap, K10) = "a"
  /\ ValueAt(sheets[ActiveIdx], heap, K11) = "a"

-----------------------------------------------------------------------------
(* SpecDropdown: a three-option dropdown bound to and removed from 0-0 and *)
(* 0-1, where 0-0 may hold "a" or have been cleared to "".                 *)

ThreeOptions ==
  [id |-> "d",
   options |-> <<[value |-> "x", label |-> "x"],
                 [value |-> "y", label |-> "y"],
                 [value |-> "z", label |-> "z"]>>]

NextDropdown ==
  \/ Within(MaxMut) /\ \E value \in {"a", ""} : CellChange(K00, value)
  \/ Within(MaxMut) /\ \E cellId \in {K00, K01} : DropdownChange(cellId, Some(ThreeOptions))
  \/ Within(MaxMut) /\ \E cellId \in {K00, K01} : DropdownChange(cellId, None)
  \/ Undo
  \/ Redo

SpecDropdown == Init /\ [][NextDropdown]_vars

\* C16: dropdown auto-value.  Binding a dropdown with at least one option
\* to a cell whose value is empty, or that has no record, sets the value to
\* the first option's value; on a cell with a non-empty value the value
\* stays; removing the dropdown (null) never changes the value.
DropdownAutoValue ==
  ActiveIdx # 0 =>
    \A cellId \in {K00, K01} :
      LET before == ValueAt(sheets[ActiveIdx], heap, cellId)
          bound == handleCellDropdownChange(Cur, cellId, Some(ThreeOptions))
          cleared == handleCellDropdownChange(Cur, cellId, None)
          valueIn(world) ==
            ValueAt(world.sheets[FindSheet(world.sheets, world.activeSheetId)],
                    world.heap, cellId)
      IN /\ before = "" => valueIn(bound) = ThreeOptions.options[1].value
         /\ before # "" => valueIn(bound) = before
         /\ valueIn(cleared) = before

\* The dropdown was bound to 0-0 holding "a" and to 0-1 holding nothing:
\* 0-0 still reads "a" and 0-1 reads the first option.
BoundToFullAndEmpty ==
  /\ ActiveIdx # 0
  /\ K00 \in DOMAIN sheets[ActiveIdx].cells
  /\ K01 \in DOMAIN sheets[ActiveIdx].cells
  /\ heap[sheets[ActiveIdx].cells[K00]].dropdown = Some(ThreeOptions)
  /\ heap[sheets[ActiveIdx].cells[K01]].dropdown = Some(ThreeOptions)
  /\ heap[sheets[ActiveIdx].cells[K00]].value = "a"
  /\ heap[sheets[ActiveIdx].cells[K01]].value = "x"

-----------------------------------------------------------------------------
(* The copy-and-paste scenario, stated over SpecScenario *)

\* "Hello" committed to 0-0 of the initial workbook, 0-0 selected and
\* copied, 1-0..1-1 selected.
ScenarioCopied ==
  handleCellSelect(
    handleCopy(
      handleCellSelect(
        handleCellChange(initialState, K00, "Hello", TRUE),
        <<K00>>, FALSE)),
    <<K10, K11>>, FALSE)

\* Then pasted, and the timer fired.
ScenarioPasted == Settle(handlePaste(ScenarioCopied))

\* C17: from the initial workbook, set 0-0 to "Hello", select 0-0, copy,
\* select 1-0 and 1-1, paste: 1-0 and 1-1 both read "Hello".  One undo then
\* leaves 1-0 and 1-1 absent or blank while 0-0 still reads "Hello".
CopyPasteUndoScenario ==
  Cur = ScenarioPasted =>
    /\ ValueAt(sheets[1], heap, K10) = "Hello"
    /\ ValueAt(sheets[1], heap, K11) = "Hello"
    /\ LET undone == handleUndo(Cur)
       IN /\ ValueAt(undone.sheets[1], undone.heap, K10) = ""
          /\ ValueAt(undone.sheets[1], undone.heap, K11) = ""
          /\ ValueAt(undone.sheets[1], undone.heap, K00) = "Hello"

\* The run has played the scenario up to its paste: two mutations from the
\* initial workbook, 0-0 on the clipboard, 1-0..1-1 selected and written.
ScenarioPlayed ==
  /\ Cur = ScenarioPasted
  /\ nMut = 2
  /\ Len(copiedCells) = 1 /\ heap[copiedCells[1]].value = "Hello"
  /\ selectedCells = <<K10, K11>>
  /\ K10 \in DOMAIN sheets[1].cells

-----------------------------------------------------------------------------
(* Editing sessions: the Spreadsheet component's typing buffer, its window *)
(* keydown handler, and the textarea of the CellComponent being edited.    *)
(* A page is the hook's state with the component state around it.          *)

Page ==
  [state |-> Cur, typingBuffer |-> typingBuffer, typingCellId |-> typingCellId,
   localValue |-> localValue]

\* Spreadsheet's effect on [state.editingCell, typingCellId, typingBuffer]:
\* when no cell is being edited, a non-empty typing buffer is written to its
\* cell with a history entry, and cleared.
typingEffect(page) ==
  IF IsSome(page.typingCellId) /\ page.typingBuffer # "" /\ page.state.editingCell = None
    THEN [state |-> handleCellChange(page.state, Get(page.typingCellId),
                                     page.typingBuffer, TRUE),
          typingBuffer |-> "", typingCellId |-> None, localValue |-> page.localValue]
    ELSE page

\* CellComponent is keyed by isEditing: it mounts with localValue "" and its
\* effect sets initialValue || cell?.value || "", where initialValue is the
\* typing buffer when the cell edited is the one typed into.
mountEditor(page) ==
  LET st == page.state
      s == FindSheet(st.sheets, st.activeSheetId)
      initialValue == IF st.editingCell = page.typingCellId
                        THEN page.typingBuffer ELSE ""
      cellValue == IF s # 0 /\ Get(st.editingCell) \in DOMAIN st.sheets[s].cells
                     THEN st.heap[st.sheets[s].cells[Get(st.editingCell)]].value
                     ELSE ""
  IN [page EXCEPT !.localValue =
        IF ~IsSome(st.editingCell) THEN ""
        ELSE IF initialValue # "" THEN initialValue ELSE cellValue]

\* The page once React has rendered and run the effects.
afterRender(page) ==
  LET p == typingEffect(page)
  IN IF IsSome(p.state.editingCell) THEN p ELSE [p EXCEPT !.localValue = ""]

\* handleKeyDown's first step: a typing buffer whose cell is no longer the
\* one edited is written without a history entry.
flushTyping(page) ==
  IF /\ IsSome(page.typingCellId) /\ page.typingBuffer # ""
     /\ page.state.editingCell # page.typingCellId
    THEN [state |-> handleCellChange(page.state, Get(page.typingCellId),
                                     page.typingBuffer, FALSE),
          typingBuffer |-> "", typingCellId |-> None, localValue |-> page.localValue]
    ELSE page

\* handleKeyDown for a printable key without modifiers.
keyPrintable(page, key) ==
  LET p == flushTyping(page)
      st == page.state
  IN IF Len(st.selectedCells) = 1 /\ st.editingCell = None
       THEN mountEditor(
              [state |-> handleCellEdit(p.state, Some(st.selectedCells[1])),
               typingBuffer |-> key,
               typingCellId |-> Some(st.selectedCells[1]),
               localValue |-> p.localValue])
       ELSE afterRender(p)

\* handleKeyDown for Enter without shift, or F2.
keyEnterOrF2(page) ==
  LET p == flushTyping(page)
      st == page.state
  IN IF /\ st.editingCell = None
        /\ FindSheet(st.sheets, st.activeSheetId) # 0
        /\ Len(st.selectedCells) = 1
       THEN mountEditor([p EXCEPT !.state = handleCellEdit(p.state, Some(st.selectedCells[1]))])
       ELSE afterRender(p)

\* Two clicks on a cell within 300 ms: the first selects it, the second
\* calls onCellEdit.
doubleClick(page, cellId) ==
  mountEditor([page EXCEPT !.state =
    handleCellEdit(handleCellSelect(page.state, <<cellId>>, FALSE), Some(cellId))])

\* The textarea's onChange.
inputChange(page, text) == [page EXCEPT !.localValue = text]

\* handleInputKeyDown for Enter without shift or Tab, and handleInputBlur:
\* onChange(localValue), then onStopEdit().
inputCommit(page) ==
  afterRender([page EXCEPT !.state =
    handleCellEdit(
      handleCellChange(page.state, Get(page.state.editingCell), page.localValue, TRUE),
      None)])

\* handleInputKeyDown for Escape: onStopEdit() alone.
inputEscape(page) ==
  afterRender([page EXCEPT !.state = handleCellEdit(page.state, None)])

InstallPage(page) ==
  /\ Install(page.state)
  /\ typingBuffer' = page.typingBuffer
  /\ typingCellId' = page.typingCellId
  /\ localValue' = page.localValue

DoubleClick(cellId) ==
  /\ ~crashed /\ ActiveIdx # 0
  /\ editingCell = None
  /\ InstallPage(doubleClick(Page, cellId))
  /\ UNCHANGED <<now, nMut, options, grid>>

\* The window's keydown listener; keys pressed in the textarea do not reach
\* it (handleInputKeyDown stops their propagation).
KeyPrintable(key) ==
  /\ ~crashed
  /\ editingCell = None
  /\ Len(selectedCells) = 1
  /\ InstallPage(keyPrintable(Page, key))
  /\ UNCHANGED <<now, nMut, options, grid>>

KeyEnterOrF2 ==
  /\ ~crashed /\ ActiveIdx # 0
  /\ editingCell = None
  /\ Len(selectedCells) = 1
  /\ InstallPage(keyEnterOrF2(Page))
  /\ UNCHANGED <<now, nMut, options, grid>>

InputChange(text) ==
  /\ ~crashed /\ ActiveIdx # 0
  /\ IsSome(editingCell)
  /\ InstallPage(inputChange(Page, text))
  /\ UNCHANGED <<now, nMut, options, grid>>

InputCommit ==
  /\ ~crashed /\ ActiveIdx # 0
  /\ IsSome(editingCell)
  /\ InstallPage(inputCommit(Page))
  /\ nMut' = nMut + 1 /\ UNCHANGED <<now, options, grid>>

InputEscape ==
  /\ ~crashed /\ ActiveIdx # 0
  /\ IsSome(editingCell)
  /\ InstallPage(inputEscape(Page))
  /\ nMut' = nMut + 1 /\ UNCHANGED <<now, options, grid>>

-----------------------------------------------------------------------------
(* SpecEdit: editing sessions on 0-0 and 0-1, entered by double click, by  *)
(* Enter or F2, or by typing "h"; the text is edited, then committed or    *)
(* cancelled.                                                              *)

EditTexts == {"", "h", "hi"}

NextEdit ==
  \/ \E cellId \in {K00, K01} : editingCell = None /\ CellSelect(<<cellId>>, FALSE)
  \/ \E cellId \in {K00, K01} : DoubleClick(cellId)
  \/ KeyEnterOrF2
  \/ KeyPrintable("h")
  \/ \E text \in EditTexts : InputChange(text)
  \/ Within(MaxMut) /\ InputCommit
  \/ Within(MaxMut) /\ InputEscape

SpecEdit == Init /\ [][NextEdit]_vars

\* No session is open, one cell is selected and nothing is pending.
Idle ==
  /\ ~crashed /\ ActiveIdx # 0
  /\ editingCell = None
  /\ Len(selectedCells) = 1
  /\ Settled
  /\ typingBuffer = ""

EntryGestures == {"doubleClick", "enterOrF2", "type"}

\* The page after the gesture has opened a session on the selected cell.
EnterSession(page, gesture) ==
  CASE gesture = "doubleClick" -> doubleClick(page, page.state.selectedCells[1])
    [] gesture = "enterOrF2" -> keyEnterOrF2(page)
    [] gesture = "type" -> keyPrintable(page, "h")

\* The keystrokes of a session: none, or some leaving `text` in the textarea.
Keystrokes == {None} \cup {Some(text) : text \in EditTexts}
Keyed(page, keys) == IF IsSome(keys) THEN inputChange(page, Get(keys)) ELSE page

StoredValue(st, cellId) ==
  ValueAt(st.sheets[FindSheet(st.sheets, st.activeSheetId)], st.heap, cellId)

\* C18: a session entered by double click, by Enter or F2, or by typing a
\* printable character on the single selected cell, and cancelled with
\* Escape, leaves the cell's stored value and the history as they were
\* before the session.
EscapeNeverMutates ==
  Idle =>
    \A gesture \in EntryGestures, keys \in Keystrokes :
      LET after == inputEscape(Keyed(EnterSession(Page, gesture), keys)).state
      IN /\ StoredValue(after, selectedCells[1]) = StoredValue(Cur, selectedCells[1])
         /\ Len(after.history) = Len(history)
         /\ after.historyIndex = historyIndex

\* C19: a session entered by any gesture and committed (Enter without shift,
\* Tab or blur) leaves the cell's stored value equal to the whole edit
\* buffer at the commit.
CommitWritesBuffer ==
  Idle =>
    \A gesture \in EntryGestures, keys \in Keystrokes :
      LET session == Keyed(EnterSession(Page, gesture), keys)
          after == inputCommit(session).state
      IN StoredValue(after, selectedCells[1]) = session.localValue

\* C20: edits are coalesced per session.  Keystrokes change the local
\* buffer only; a committed session appends exactly one history entry and a
\* cancelled one none.
EditsCoalesced ==
  Idle /\ Len(history) < HistoryLimit - 1 =>
    \A gesture \in EntryGestures, keys \in Keystrokes :
      LET entered == EnterSession(Page, gesture)
          session == Keyed(entered, keys)
      IN /\ session.state = entered.state
         /\ Len(entered.state.history) = Len(history)
         /\ Len(inputCommit(session).state.history) = Len(history) + 1
         /\ Len(inputEscape(session).state.history) = Len(history)

-----------------------------------------------------------------------------
(* Properties of the sheet lifecycle, stated over SpecSheets *)

\* C21: deleteSheet returns the state unchanged when the workbook has
\* exactly one sheet; otherwise it removes exactly the sheet with the given
\* id, the first remaining sheet becomes active if the removed one was, and
\* activeSheetId is unchanged if it was not.
DeleteSheetExact ==
  ~crashed =>
    \A sheetId \in SheetIds :
      LET after == deleteSheet(Cur, sheetId)
          s == FindSheet(sheets, sheetId)
          remaining == [i \in 1..(Len(sheets) - 1) |->
                          IF i < s THEN sheets[i] ELSE sheets[i + 1]]
      IN IF Len(sheets) = 1
           THEN after = Cur
           ELSE /\ ~after.crashed
                /\ Deref(after.sheets, after.heap) = Deref(remaining, heap)
                /\ after.activeSheetId =
                     IF activeSheetId = sheetId THEN remaining[1].id ELSE activeSheetId

\* C22: in every reachable state no two sheets of the list share an id,
\* whatever the clock read when addSheet and duplicateSheet ran.
SheetIdsUnique ==
  \A i, j \in DOMAIN sheets : i # j => sheets[i].id # sheets[j].id

-----------------------------------------------------------------------------
(* SpecOptions: the dropdown editor.  Options are added and deleted, and   *)
(* the list is saved to 0-0 or 0-1.                                        *)

MaxOptions == 2

\* DropdownEditor.handleAddOption
handleAddOption(opts) == Append(opts, Option(Len(opts) + 1, "trasnparent"))

\* DropdownEditor.handleDeleteOption: options.filter((_, i) => i !== index),
\* with index counted from 0.
handleDeleteOption(opts, index) ==
  [i \in 1..(Len(opts) - 1) |-> IF i <= index THEN opts[i] ELSE opts[i + 1]]

\* Spreadsheet.handleDropdownSave, called by DropdownEditor.handleSave.
handleDropdownSave(prev, editingDropdownCell, opts, clock) ==
  handleCellDropdownChange(prev, editingDropdownCell,
    Some([id |-> "dropdown-" \o ToString(clock), options |-> opts]))

AddOption ==
  /\ ~crashed
  /\ Len(options) < MaxOptions
  /\ options' = handleAddOption(options)
  /\ UNCHANGED <<sheets, activeSheetId, selectedCells, editingCell, copiedCells,
                 history, historyIndex, heap, updateTimeout, crashed, now, nMut,
                 typingBuffer, typingCellId, localValue, grid>>

\* The X button of the option at `index`.
DeleteOption(index) ==
  /\ ~crashed
  /\ index \in 0..(Len(options) - 1)
  /\ options' = handleDeleteOption(options, index)
  /\ UNCHANGED <<sheets, activeSheetId, selectedCells, editingCell, copiedCells,
                 history, historyIndex, heap, updateTimeout, crashed, now, nMut,
                 typingBuffer, typingCellId, localValue, grid>>

\* The editor's Save for the cell chosen in the context menu.
SaveOptions(cellId) ==
  /\ ~crashed /\ ActiveIdx # 0
  /\ Install(handleDropdownSave(Cur, cellId, options, now))
  /\ Counted

NextOptions ==
  \/ AddOption
  \/ \E index \in 0..(MaxOptions - 1) : DeleteOption(index)
  \/ Within(MaxMut) /\ \E cellId \in {K00, K01} : SaveOptions(cellId)

SpecOptions == Init /\ [][NextOptions]_vars

\* C23: option values are unique within one dropdown: after any sequence of
\* add-option and delete-option steps the editor's list, which is what save
\* passes on, and every list stored on a cell hold no value twice.
OptionValuesUnique ==
  /\ \A i, j \in DOMAIN options : i # j => options[i].value # options[j].value
  /\ \A s \in DOMAIN sheets : \A cellId \in DOMAIN sheets[s].cells :
       LET dropdown == heap[sheets[s].cells[cellId]].dropdown
       IN IsSome(dropdown) =>
            \A i, j \in DOMAIN Get(dropdown).options :
              i # j => Get(dropdown).options[i].value # Get(dropdown).options[j].value

-----------------------------------------------------------------------------
(* SpecHeight: 0-0 is given wrapping, a large font and a narrow column,    *)
(* and texts of several lengths.                                           *)

MaxTextLen == 30
MinColumnWidth == 50
LargeFontSize == 72

RECURSIVE Text(_)
Text(n) == IF n = 0 THEN "" ELSE "x" \o Text(n - 1)

WrapFormat == [textWrap |-> "wrap"]

\* A drag of a column's resize handle.
ResizeColumn(col, width) ==
  /\ ~crashed /\ ActiveIdx # 0
  /\ Install(resizeColumn(Cur, col, width))
  /\ Quiet

NextHeight ==
  \/ CellSelect(<<K00>>, FALSE)
  \/ Within(MaxMut) /\ FormatChange(WrapFormat)
  \/ Within(MaxMut) /\ FormatChange([fontSize |-> LargeFontSize])
  \/ ResizeColumn(0, MinColumnWidth)
  \/ Within(MaxMut) /\ \E n \in {5, 12, MaxTextLen} : CellChange(K00, Text(n))
  \/ Timeout

SpecHeight == Init /\ [][NextHeight]_vars

\* The sheet's cell at cellId has format.textWrap = "wrap".
WrapEnabled(sheet, hp, cellId) ==
  /\ cellId \in DOMAIN sheet.cells
  /\ HasWrap(hp[sheet.cells[cellId]])

\* calculateRowHeight for the cell's row once the cell holds a text of n
\* characters, everything else as it is.
HeightWithText(sheet, hp, cellId, n) ==
  calculateRowHeight(cellId[1], sheet,
    [hp EXCEPT ![sheet.cells[cellId]].value = Text(n)])

\* C24: row-height monotonicity.  For a wrap-enabled cell, with the column
\* width and the font size fixed, the height computed by calculateRowHeight
\* for a longer text is never below the one computed for a shorter text.
RowHeightMonotone ==
  ActiveIdx # 0 /\ WrapEnabled(sheets[ActiveIdx], heap, K00) =>
    \A shorter, longer \in 0..MaxTextLen :
      shorter <= longer =>
        HeightWithText(sheets[ActiveIdx], heap, K00, shorter) <=
          HeightWithText(sheets[ActiveIdx], heap, K00, longer)

\* A text of MaxTextLen characters was typed into the wrapping cell 0-0
\* and row 0 was raised above the default height.
RowRaisedByLongText ==
  /\ Settled /\ ActiveIdx # 0
  /\ WrapEnabled(sheets[ActiveIdx], heap, K00)
  /\ heap[sheets[ActiveIdx].cells[K00]].value = Text(MaxTextLen)
  /\ 0 \in DOMAIN sheets[ActiveIdx].rowHeights
  /\ sheets[ActiveIdx].rowHeights[0] > 2 * DEFAULT_ROW_HEIGHT

-----------------------------------------------------------------------------
(* Properties of the debounce, stated over SpecClip *)

\* C25: the history head reflects the mutation it records.  For every
\* history-producing operation, once it has settled, the snapshot at
\* history[historyIndex] has sheets deep-equal to the live sheets, for the
\* operations handed to the 10 ms timer too.
HeadReflectsMutation ==
  Settled =>
    \A op \in MutationOps(Cur) :
      LET after == Settle(Mutation(Cur, op))
      IN /\ after.historyIndex >= 0
         /\ Deref(after.history[after.historyIndex + 1].sheets, after.heap) =
              Deref(after.sheets, after.heap)

\* C26: no invoked mutation is lost.  An update waiting for the 10 ms timer
\* leaves updateTimeoutRef only by being applied to the state, whatever
\* other call goes through debouncedUpdate before the timer fires; a
\* cleared timer never fires, so an update that leaves otherwise is never
\* applied.
NoUpdateLost ==
  [][IsSome(updateTimeout) /\ updateTimeout' # updateTimeout =>
       Cur' = FireTimeout(Cur)]_vars

-----------------------------------------------------------------------------
(* SpecSwitch: debounced mutations on a workbook whose active sheet is     *)
(* switched, or a sheet added, while the timer is pending.                 *)

NextSwitch ==
  \/ Within(MaxMut) /\ CellChange(K00, "a")
  \/ CellSelect(<<K00>>, FALSE)
  \/ Within(MaxMut) /\ FormatChange(BoldFormat)
  \/ Within(MaxMut) /\ Delete
  \/ AddSheet
  \/ \E sheetId \in SheetIds : SheetSelect(sheetId)
  \/ Tick
  \/ Timeout

SpecSwitch == Init /\ [][NextSwitch]_vars

\* The operations handed to the 10 ms timer that the state allows.
DebouncedOps(prev) ==
  MutationOps(prev) \cap {"applyFormat", "fillCells", "paste", "deleteSelection"}

\* C27: a debounced mutation is applied to the sheet that was active when
\* it was invoked and leaves every other sheet unchanged, even if another
\* sheet is made active before the 10 ms timer fires: the sheets are then
\* as if the timer had fired before the switch.
DebouncedHitsInvokedSheet ==
  Settled /\ ActiveIdx # 0 /\ SheetIdsUnique =>
    \A op \in DebouncedOps(Cur), sheetId \in SheetIds :
      LET invoked == Mutation(Cur, op)
          expected == Settle(invoked)
          after == FireTimeout(selectSheet(invoked, sheetId))
      IN Deref(after.sheets, after.heap) = Deref(expected.sheets, expected.heap)

-----------------------------------------------------------------------------
(* SpecToggle: format payloads with true, false and non-boolean fields     *)
(* applied to single and multiple selections.                              *)

UnboldFormat == [bold |-> FALSE]
BoldLargeFormat == [bold |-> TRUE, fontSize |-> LargeFontSize]

NextToggle ==
  \/ \E cellIds \in {<<K00>>, <<K00, K01>>} : CellSelect(cellIds, FALSE)
  \/ Within(MaxMut) /\ FormatChange(BoldFormat)
  \/ Within(MaxMut) /\ FormatChange(UnboldFormat)
  \/ Within(MaxMut) /\ FormatChange(BoldLargeFormat)
  \/ Timeout

SpecToggle == Init /\ [][NextToggle]_vars

\* The format stored at a key of the active sheet; empty when the key has
\* no record or the record has no format.
FormatAt(world, cellId) ==
  LET sheet == world.sheets[FindSheet(world.sheets, world.activeSheetId)]
  IN IF cellId \in DOMAIN sheet.cells /\ IsSome(world.heap[sheet.cells[cellId]].format)
       THEN Get(world.heap[sheet.cells[cellId]].format)
       ELSE <<>>

\* One settled application of the payload to the keys toggles each key
\* against its own prior format.
TogglesPerCell(cellIds, format) ==
  LET after == Settle(handleCellFormatChange(Cur, cellIds, format))
  IN \A i \in DOMAIN cellIds :
       LET old == FormatAt(Cur, cellIds[i])
           new == FormatAt(after, cellIds[i])
       IN /\ DOMAIN new = DOMAIN old \cup DOMAIN format
          /\ \A key \in DOMAIN format :
               new[key] = IF key \in BooleanFields /\ key \in DOMAIN old
                            THEN ~old[key]
                            ELSE format[key]
          /\ \A key \in DOMAIN old \ DOMAIN format : new[key] = old[key]

\* C28: applying a format toggles relative to each cell's own prior state.
\* For every key and every boolean field of the payload, a cell whose
\* format already has that field gets the negation of its own value,
\* whatever the payload value; otherwise it gets the payload value.  Every
\* non-boolean field is set to the payload value, and the cells of one
\* multi-selection are toggled independently.
ToggleRelativeToOwnState ==
  Settled /\ ActiveIdx # 0 =>
    \A cellIds \in {<<K00>>, <<K01>>, <<K00, K01>>} :
      /\ TogglesPerCell(cellIds, BoldFormat)
      /\ TogglesPerCell(cellIds, UnboldFormat)
      /\ TogglesPerCell(cellIds, BoldLargeFormat)

\* One toggle over the selection 0-0, 0-1 has left the two cells with
\* opposite bold values: 0-0 stores false, 0-1 stores true.
ToggledApart ==
  /\ Settled
  /\ selectedCells = <<K00, K01>>
  /\ "bold" \in DOMAIN FormatAt(Cur, K00)
  /\ ~FormatAt(Cur, K00).bold
  /\ BoldAt(Cur, K01)

-----------------------------------------------------------------------------
(* SpecBatch: a long run of bold toggles over two keys, with undo and      *)
(* cancelled timers in the first steps and each toggle settled before the  *)
(* next afterwards, so that the history both fills up and has a redo       *)
(* branch when a format is applied.                                        *)

NextBatch ==
  \/ /\ Within(MaxMut) \/ Settled
     /\ CellSelect(<<K00, K01>>, FALSE)
  \/ /\ Within(MaxMut) \/ (Within(LongRun) /\ Settled)
     /\ FormatChange(BoldFormat)
  \/ Within(MaxMut) /\ Undo
  \/ Timeout

SpecBatch == Init /\ [][NextBatch]_vars

-----------------------------------------------------------------------------
(* SpecValue: value edits of cells that carry a wrap format, a link, a     *)
(* dropdown or a merge descriptor, on rows the user may have shrunk.       *)

MinRowHeight == 20

ResizeRow(row, height) ==
  /\ ~crashed /\ ActiveIdx # 0
  /\ Install(resizeRow(Cur, row, height))
  /\ Quiet

NextValue ==
  \/ CellSelect(<<K00, K01>>, FALSE)
  \/ Within(MaxMut) /\ FormatChange(WrapFormat)
  \/ Within(MaxMut) /\ LinkChange(K00, SampleLink)
  \/ Within(MaxMut) /\ DropdownChange(K00, Some(SampleDropdown))
  \/ Within(MaxMut) /\ ToolbarMergeCells
  \/ ResizeRow(0, MinRowHeight)
  \/ Within(MaxMut) /\ \E n \in {5, MaxTextLen} : CellChange(K00, Text(n))
  \/ Timeout

SpecValue == Init /\ [][NextValue]_vars

\* The height a row is drawn with: its override, or the default.
RowHeightOf(sheet, row) ==
  IF row \in DOMAIN sheet.rowHeights /\ sheet.rowHeights[row] # 0
    THEN sheet.rowHeights[row] ELSE 2 * DEFAULT_ROW_HEIGHT

\* The effect of one value edit on the active sheet is the frame of C30.
ValueEditFrame(cellId, value, saveHistory) ==
  LET after == handleCellChange(Cur, cellId, value, saveHistory)
      before == Deref(sheets, heap)
      result == Deref(after.sheets, after.heap)
      old == before[ActiveIdx]
      new == result[ActiveIdx]
      existing == IF cellId \in DOMAIN old.cells THEN old.cells[cellId] ELSE BlankCell(cellId)
  IN /\ DOMAIN result = DOMAIN before
     /\ \A s \in DOMAIN before \ {ActiveIdx} : result[s] = before[s]
     /\ DOMAIN new.cells = DOMAIN old.cells \cup {cellId}
     /\ new.cells[cellId] = [existing EXCEPT !.id = cellId, !.value = value]
     /\ \A other \in DOMAIN old.cells \ {cellId} : new.cells[other] = old.cells[other]
     /\ new.columnWidths = old.columnWidths
     /\ \A row \in 0..1 : RowHeightOf(new, row) >= RowHeightOf(old, row)
     /\ new.rowHeights # old.rowHeights =>
          /\ HasWrap(existing)
          /\ DOMAIN new.rowHeights = DOMAIN old.rowHeights \cup {cellId[1]}
          /\ \A row \in DOMAIN old.rowHeights \ {cellId[1]} :
               new.rowHeights[row] = old.rowHeights[row]
          /\ new.rowHeights[cellId[1]] > RowHeightOf(old, cellId[1])

\* C30: a value edit replaces only the value.  It leaves the cell's
\* format, dropdown, link and merge descriptor and every other cell
\* unchanged; it changes a row-height override only for a wrap-enabled
\* cell, only in that cell's row and only by raising it, so that no row
\* height is ever lowered by a value edit.
ValueEditReplacesOnlyValue ==
  ~crashed /\ ActiveIdx # 0 =>
    \A cellId \in {K00, K01, K10}, n \in {0, MaxTextLen}, saveHistory \in BOOLEAN :
      ValueEditFrame(cellId, Text(n), saveHistory)

\* A text of MaxTextLen characters was typed into 0-0 after it had been
\* given the wrap format: the cell keeps the format and row 0 stands above
\* the default height.  The first snapshot, taken when the format was
\* invoked, has no cells; the second, taken by the edit, has the text.
WrappedCellEdited ==
  /\ Settled /\ ActiveIdx # 0
  /\ nMut = 2 /\ Len(history) = 2 /\ historyIndex = 1
  /\ DOMAIN history[1].sheets[1].cells = {}
  /\ WrapEnabled(sheets[ActiveIdx], heap, K00)
  /\ heap[sheets[ActiveIdx].cells[K00]].value = Text(MaxTextLen)
  /\ ValueAt(history[2].sheets[1], heap, K00) = Text(MaxTextLen)
  /\ RowHeightOf(sheets[ActiveIdx], 0) > 2 * DEFAULT_ROW_HEIGHT

-----------------------------------------------------------------------------
(* SpecDelete: Delete pressed on selections whose cells carry values,      *)
(* formats, links and merge descriptors, next to a cell outside them.      *)

NextDelete ==
  \/ \E cellIds \in {<<K00>>, <<K00, K01>>} : CellSelect(cellIds, FALSE)
  \/ Within(MaxMut) /\ \E cellId \in {K00, K10} : CellChange(cellId, "a")
  \/ Within(MaxMut) /\ LinkChange(K00, SampleLink)
  \/ Within(MaxMut) /\ FormatChange(BoldFormat)
  \/ Within(MaxMut) /\ ToolbarMergeCells
  \/ Within(MaxMut) /\ Delete
  \/ Timeout

SpecDelete == Init /\ [][NextDelete]_vars

\* C31: deleting the selection sets the value of every selected cell that
\* has a record to the empty string and keeps its format, dropdown, link
\* and merge descriptor; a selected key without a record gets a blank one;
\* no cell outside the selection, no size map, no merge map and no other
\* sheet changes.
DeleteClearsOnlyValues ==
  Settled /\ ActiveIdx # 0 /\ Len(selectedCells) > 0 =>
    LET after == Settle(handleDelete(Cur))
        before == Deref(sheets, heap)
        result == Deref(after.sheets, after.heap)
        old == before[ActiveIdx]
        new == result[ActiveIdx]
        selected == SeqToSet(selectedCells)
    IN /\ DOMAIN new.cells = DOMAIN old.cells \cup selected
       /\ \A cellId \in selected :
            new.cells[cellId] =
              IF cellId \in DOMAIN old.cells
                THEN [old.cells[cellId] EXCEPT !.value = ""]
                ELSE BlankCell(cellId)
       /\ \A cellId \in DOMAIN old.cells \ selected : new.cells[cellId] = old.cells[cellId]
       /\ [new EXCEPT !.cells = old.cells] = old
       /\ \A s \in DOMAIN before \ {ActiveIdx} : result[s] = before[s]

\* Delete was pressed on 0-0, which held "a" and a link: the snapshot taken
\* when it was pressed still has the value, the live cell has the link and
\* an empty value.
LinkedCellCleared ==
  /\ Settled /\ ActiveIdx # 0
  /\ nMut = 3 /\ historyIndex = 2
  /\ K00 \in DOMAIN history[3].sheets[1].cells
  /\ ValueAt(history[3].sheets[1], heap, K00) = "a"
  /\ heap[history[3].sheets[1].cells[K00]].link = Some(SampleLink)
  /\ K00 \in DOMAIN sheets[ActiveIdx].cells
  /\ heap[sheets[ActiveIdx].cells[K00]].value = ""
  /\ heap[sheets[ActiveIdx].cells[K00]].link = Some(SampleLink)

-----------------------------------------------------------------------------
(* SpecStores: merges, unmerges, value edits, fills, copies, pastes and    *)
(* deletes over the corner, for the two stores of merge descriptors: the   *)
(* sheet's mergedCells map and the merged field of the cell records.       *)

NextStores ==
  \/ \E cellIds \in {<<K00, K01>>, <<K10>>} : CellSelect(cellIds, FALSE)
  \/ Within(MaxMut) /\ CellChange(K00, "a")
  \/ Within(MaxMut) /\ ToolbarMergeCells
  \/ Within(MaxMut) /\ ToolbarUnmergeCells
  \/ Within(MaxMut) /\ \E target \in {<<K10>>, <<K10, K11>>} : FillCells(target)
  \/ Copy
  \/ Within(MaxMut) /\ Paste
  \/ Within(MaxMut) /\ Delete
  \/ Timeout

SpecStores == Init /\ [][NextStores]_vars

\* C32: a fill gives every target key a copy of the source's value, format,
\* dropdown and link under its own key, without the source's merge
\* descriptor, and leaves mergedCells as it was.
FillCopiesNoMerge ==
  Settled /\ ActiveIdx # 0 /\ Len(selectedCells) > 0 =>
    \A targetCellIds \in {<<K10>>, <<K10, K11>>} :
      (/\ selectedCells[1] \in DOMAIN sheets[ActiveIdx].cells
       /\ SeqToSet(selectedCells) \cap SeqToSet(targetCellIds) = {}) =>
        LET after == Settle(handleFillCells(Cur, selectedCells, targetCellIds))
            old == Deref(sheets, heap)[ActiveIdx]
            new == Deref(after.sheets, after.heap)[ActiveIdx]
            sourceCell == old.cells[selectedCells[1]]
        IN /\ new.mergedCells = old.mergedCells
           /\ \A i \in DOMAIN targetCellIds :
                /\ targetCellIds[i] \in DOMAIN new.cells
                /\ new.cells[targetCellIds[i]] =
                     [sourceCell EXCEPT !.id = targetCellIds[i], !.merged = None]


\* C33: the two merge stores agree on every sheet.  A key's record has a
\* merged field exactly when mergedCells has an entry for the key, and then
\* the two descriptors are equal.
MergeStoresAgree ==
  \A s \in DOMAIN sheets :
    LET sheet == sheets[s]
    IN /\ \A k \in DOMAIN sheet.mergedCells :
            /\ k \in DOMAIN sheet.cells
            /\ heap[sheet.cells[k]].merged = Some(sheet.mergedCells[k])
       /\ \A k \in DOMAIN sheet.cells :
            IsSome(heap[sheet.cells[k]].merged) => k \in DOMAIN sheet.mergedCells

-----------------------------------------------------------------------------
(* SpecBox: merges of selections that are not rectangles, such as the two  *)
(* ends of a diagonal picked with a multi-select click.                    *)

NextBox ==
  \/ \E cellIds \in {<<K00>>, <<K00, K01>>} : CellSelect(cellIds, FALSE)
  \/ CellSelect(<<K11>>, TRUE)
  \/ Within(MaxMut) /\ CellChange(K11, "a")
  \/ Within(MaxMut) /\ ToolbarMergeCells
  \/ Within(MaxMut) /\ ToolbarUnmergeCells

SpecBox == Init /\ [][NextBox]_vars

\* The supplied key lists the bounding-box property is checked for: a row,
\* a diagonal in both orders, and the other diagonal, whose box has a
\* top-left key that was not supplied.
BoxInputs == {<<K00, K01>>, <<K00, K11>>, <<K11, K00>>, <<K01, K10>>, <<K10, K11, K01>>}

\* One merge of the supplied keys covers their bounding box.
MergesBox(cellIds) ==
  LET after == handleMergeCells(Cur, cellIds)
      old == Deref(sheets, heap)[ActiveIdx]
      new == Deref(after.sheets, after.heap)[ActiveIdx]
      rows == {cellIds[i][1] : i \in DOMAIN cellIds}
      cols == {cellIds[i][2] : i \in DOMAIN cellIds}
      minRow == Min(rows)
      maxRow == Max(rows)
      minCol == Min(cols)
      maxCol == Max(cols)
      box == {<<r, c>> : r \in minRow..maxRow, c \in minCol..maxCol}
      expected(k) ==
        IF k = <<minRow, minCol>>
          THEN [rowSpan |-> maxRow - minRow + 1, colSpan |-> maxCol - minCol + 1,
                isOrigin |-> TRUE, originCell |-> None]
          ELSE [rowSpan |-> 1, colSpan |-> 1, isOrigin |-> FALSE,
                originCell |-> Some(<<minRow, minCol>>)]
  IN /\ DOMAIN new.mergedCells = DOMAIN old.mergedCells \cup box
     /\ DOMAIN new.cells = DOMAIN old.cells \cup box
     /\ \A k \in box :
          /\ new.mergedCells[k] = expected(k)
          /\ new.cells[k] =
               [IF k \in DOMAIN old.cells THEN old.cells[k] ELSE BlankCell(k)
                  EXCEPT !.merged = Some(expected(k))]
     /\ \A k \in DOMAIN old.mergedCells \ box : new.mergedCells[k] = old.mergedCells[k]
     /\ \A k \in DOMAIN old.cells \ box : new.cells[k] = old.cells[k]

\* C34: a merge covers the bounding box of the supplied keys.  The key at
\* (minRow, minCol) gets an origin descriptor with rowSpan = maxRow - minRow
\* + 1 and colSpan = maxCol - minCol + 1, every other key of the box gets a
\* member descriptor naming that origin, keys that were not supplied
\* included, and a key without a record gets a blank one.
MergeCoversBoundingBox ==
  ~crashed /\ ActiveIdx # 0 => \A cellIds \in BoxInputs : MergesBox(cellIds)

\* The selection 0-0, 1-1 was merged: 0-1 and 1-0, which were not
\* selected, are members of the 2x2 merge at 0-0, and the value at 1-1 is
\* kept.
DiagonalMerged ==
  /\ ActiveIdx # 0
  /\ selectedCells = <<K00, K11>>
  /\ DOMAIN sheets[ActiveIdx].mergedCells = {K00, K01, K10, K11}
  /\ sheets[ActiveIdx].mergedCells[K00] = OriginDescriptor(2, 2)
  /\ sheets[ActiveIdx].mergedCells[K01] = MemberDescriptor(K00)
  /\ heap[sheets[ActiveIdx].cells[K10]] = [BlankCell(K10) EXCEPT !.merged = Some(MemberDescriptor(K00))]
  /\ heap[sheets[ActiveIdx].cells[K11]].value = "a"

-----------------------------------------------------------------------------
(* SpecLifecycle: the sheet tabs' operations on a workbook with a history. *)

RenameSheet(sheetId, name) ==
  /\ ~crashed
  /\ \E i \in DOMAIN sheets : sheets[i].id = sheetId
  /\ Install(renameSheet(Cur, sheetId, name))
  /\ Quiet

NextLifecycle ==
  \/ Within(MaxMut) /\ CellChange(K00, "a")
  \/ AddSheet
  \/ DeleteSheet(SheetId(now))
  \/ DuplicateSheet(SheetId(1))
  \/ RenameSheet(SheetId(1), "Renamed")

SpecLifecycle == Init /\ [][NextLifecycle]_vars

\* The snapshots of a state, with the contents of their cells.
HistoryContent(world) ==
  [h \in DOMAIN world.history |->
     [sheets |-> Deref(world.history[h].sheets, world.heap),
      selectedCells |-> world.history[h].selectedCells]]

\* The state after a sheet operation has the history and the cursor of
\* the current state.
KeepsHistory(after) ==
  /\ after.historyIndex = historyIndex
  /\ HistoryContent(after) = HistoryContent(Cur)

\* C35: no sheet-lifecycle operation pushes a history entry: addSheet,
\* deleteSheet, renameSheet, duplicateSheet and changeSheetColor each leave
\* history and historyIndex as they were.
LifecycleKeepsHistory ==
  ~crashed =>
    /\ KeepsHistory(addSheet(Cur, now))
    /\ \A sheetId \in SheetIds :
         /\ KeepsHistory(deleteSheet(Cur, sheetId))
         /\ KeepsHistory(renameSheet(Cur, sheetId, "Renamed"))
         /\ KeepsHistory(duplicateSheet(Cur, sheetId, now))
         /\ KeepsHistory(changeSheetColor(Cur, sheetId, "#ff0000"))

\* A sheet was added after the one edit of the run: the workbook has two
\* sheets, the only snapshot has one.
SheetAddedAfterEdit ==
  /\ ~crashed
  /\ nMut = 1 /\ Len(history) = 1 /\ historyIndex = 0
  /\ Len(history[1].sheets) = 1
  /\ Len(sheets) = 2
  /\ sheets[2].cells = <<>>
  /\ sheets[2].name = "Sheet2"

-----------------------------------------------------------------------------
(* SpecDuplicate: sheets duplicated, added and selected in a workbook      *)
(* whose cells are edited and merged.                                      *)

NextDuplicate ==
  \/ Within(MaxMut) /\ CellChange(K00, "a")
  \/ CellSelect(<<K00, K01>>, FALSE)
  \/ Within(MaxMut) /\ ToolbarMergeCells
  \/ AddSheet
  \/ \E sheetId \in SheetIds : DuplicateSheet(sheetId)
  \/ \E sheetId \in SheetIds : SheetSelect(sheetId)
  \/ Tick

SpecDuplicate == Init /\ [][NextDuplicate]_vars

\* A sheet id no sheet has.
UnknownSheetId == SheetId(0)

\* Duplicating the sheet with this id appends a deep copy and makes it
\* active, and the original and the copy are independent afterwards.
DuplicatesApart(sheetId) ==
  LET dup == duplicateSheet(Cur, sheetId, now)
      s == FindSheet(sheets, sheetId)
      n == Len(sheets) + 1
      before == Deref(sheets, heap)
      copied == Deref(dup.sheets, dup.heap)
  IN IF s = 0 THEN dup = Cur
     ELSE /\ Len(dup.sheets) = n
          /\ \A i \in DOMAIN sheets : copied[i] = before[i]
          /\ copied[n] = [before[s] EXCEPT !.id = SheetId(now),
                                           !.name = before[s].name \o " Copy"]
          /\ dup.activeSheetId = SheetId(now)
          /\ \A op \in MutationOps(dup) :
               /\ LET onCopy == Settle(Mutation(dup, op))
                  IN Deref(onCopy.sheets, onCopy.heap)[s] = copied[s]
               /\ LET onOriginal == Settle(Mutation(selectSheet(dup, sheetId), op))
                  IN Deref(onOriginal.sheets, onOriginal.heap)[n] = copied[n]

\* C36: duplicating a sheet appends a deep copy of it under a new id and
\* the name "<name> Copy" and makes it active; afterwards no mutation of
\* the copy changes the original and no mutation of the original changes
\* the copy; with an unknown id the state is unchanged.
DuplicateIsIndependent ==
  Settled => \A sheetId \in SheetIds \cup {UnknownSheetId} : DuplicatesApart(sheetId)

-----------------------------------------------------------------------------
(* The grid's pointer controller (SpreadsheetGrid): range selection by     *)
(* dragging, fill by dragging the fill handle, column and row resizing.    *)
(* A desk is the page together with the controller's state.                *)

Desk == [page |-> Page, grid |-> grid]

\* handleCellMouseDown.  quick stands for "less than 300 ms after the last
\* click"; the refs of the last click are reset by a double click, so the
\* click after one is never the second of a pair.
handleCellMouseDown(desk, button, cellId, isFillHandle, modifier, quick) ==
  LET g == desk.grid
      st == desk.page.state
      clicked == [g EXCEPT !.lastClickCell = Some(cellId)]
  IN IF button = 2 THEN desk
     ELSE IF quick /\ g.lastClickCell = Some(cellId)
       THEN [page |-> mountEditor([desk.page EXCEPT
                        !.state = handleCellEdit(st, Some(cellId))]),
             grid |-> [g EXCEPT !.lastClickCell = None]]
     ELSE IF isFillHandle /\ Len(st.selectedCells) > 0
       THEN [desk EXCEPT !.grid = [clicked EXCEPT !.isFillDragging = TRUE,
                                                    !.fillRange = <<>>]]
     ELSE IF st.editingCell = None
       THEN [page |-> [desk.page EXCEPT
                         !.state = handleCellSelect(st, <<cellId>>, modifier)],
             grid |-> [clicked EXCEPT !.isDragging = TRUE,
                                      !.dragStart = Some(cellId)]]
     ELSE [desk EXCEPT !.grid = clicked]

\* handleCellMouseEnter
handleCellMouseEnter(desk, cellId) ==
  LET g == desk.grid
      st == desk.page.state
  IN IF g.isDragging /\ IsSome(g.dragStart) /\ st.editingCell = None
       THEN [desk EXCEPT !.page.state =
               handleCellSelect(st, getSelectedRange(Get(g.dragStart), cellId), FALSE)]
     ELSE IF g.isFillDragging /\ Len(st.selectedCells) > 0
       THEN [desk EXCEPT !.grid.fillRange =
               SelectSeq(getSelectedRange(st.selectedCells[1], cellId),
                         LAMBDA id : id \notin SeqToSet(st.selectedCells))]
     ELSE desk

\* handleMouseUp, the window's mouseup listener while a drag or a fill drag
\* is on.
handleMouseUp(desk) ==
  LET g == desk.grid
      st == desk.page.state
      filled == IF g.isFillDragging /\ Len(st.selectedCells) > 0 /\ Len(g.fillRange) > 0
                  THEN handleFillCells(st, st.selectedCells, g.fillRange)
                  ELSE st
  IN [page |-> [desk.page EXCEPT !.state = filled],
      grid |-> [g EXCEPT !.isDragging = FALSE, !.dragStart = None,
                         !.isFillDragging = FALSE, !.fillRange = <<>>]]

\* handleColumnResize and handleRowResize, the mousedown handlers of the
\* header's resize handles.
handleColumnResize(desk, col) == [desk EXCEPT !.grid.isResizingColumn = Some(col)]

handleRowResize(desk, row) == [desk EXCEPT !.grid.isResizingRow = Some(row)]

\* handleResizeMouseMove, with the sizes the pointer's position asks for.
handleResizeMouseMove(desk, width, height) ==
  LET g == desk.grid
      st == desk.page.state
  IN IF IsSome(g.isResizingColumn)
       THEN [desk EXCEPT !.page.state =
               resizeColumn(st, Get(g.isResizingColumn), Maximum(MinColumnWidth, width))]
     ELSE IF IsSome(g.isResizingRow)
       THEN [desk EXCEPT !.page.state =
               resizeRow(st, Get(g.isResizingRow), Maximum(MinRowHeight, height))]
     ELSE desk

\* handleResizeMouseUp
handleResizeMouseUp(desk) ==
  [desk EXCEPT !.grid.isResizingColumn = None, !.grid.isResizingRow = None]

\* One mouseup event reaches every listener the window has: handleMouseUp
\* while a drag or a fill drag is on, handleResizeMouseUp while a resize is.
windowMouseUp(desk) ==
  LET g == desk.grid
      released == IF g.isDragging \/ g.isFillDragging THEN handleMouseUp(desk) ELSE desk
  IN IF IsSome(g.isResizingColumn) \/ IsSome(g.isResizingRow)
       THEN handleResizeMouseUp(released) ELSE released

InstallDesk(desk) ==
  /\ InstallPage(desk.page)
  /\ grid' = desk.grid

\* The mouseup would commit a fill.
WillFill == grid.isFillDragging /\ Len(selectedCells) > 0 /\ Len(grid.fillRange) > 0

\* A cell's div takes mousedown and mouseenter unless that cell is edited;
\* the fill handle is drawn on the last selected cell.
CellMouseDown(button, cellId, isFillHandle, modifier, quick) ==
  /\ ~crashed /\ ActiveIdx # 0
  /\ editingCell # Some(cellId)
  /\ isFillHandle => Len(selectedCells) > 0 /\ selectedCells[Len(selectedCells)] = cellId
  /\ InstallDesk(handleCellMouseDown(Desk, button, cellId, isFillHandle, modifier, quick))
  /\ UNCHANGED <<now, nMut, options>>

CellMouseEnter(cellId) ==
  /\ ~crashed /\ ActiveIdx # 0
  /\ editingCell # Some(cellId)
  /\ InstallDesk(handleCellMouseEnter(Desk, cellId))
  /\ UNCHANGED <<now, nMut, options>>

WindowMouseUp ==
  /\ ~crashed /\ ActiveIdx # 0
  /\ InstallDesk(windowMouseUp(Desk))
  /\ nMut' = IF WillFill THEN nMut + 1 ELSE nMut
  /\ UNCHANGED <<now, options>>

ColumnResizeDown(col) ==
  /\ ~crashed /\ ActiveIdx # 0
  /\ InstallDesk(handleColumnResize(Desk, col))
  /\ UNCHANGED <<now, nMut, options>>

RowResizeDown(row) ==
  /\ ~crashed /\ ActiveIdx # 0
  /\ InstallDesk(handleRowResize(Desk, row))
  /\ UNCHANGED <<now, nMut, options>>

WindowMouseMove(width, height) ==
  /\ ~crashed /\ ActiveIdx # 0
  /\ IsSome(grid.isResizingColumn) \/ IsSome(grid.isResizingRow)
  /\ InstallDesk(handleResizeMouseMove(Desk, width, height))
  /\ UNCHANGED <<now, nMut, options>>

PointerCells == {K00, K01}

NextPointer ==
  \/ \E button \in {0, 2}, cellId \in PointerCells, isFillHandle \in BOOLEAN, quick \in BOOLEAN :
       CellMouseDown(button, cellId, isFillHandle, FALSE, quick)
  \/ \E cellId \in PointerCells : CellMouseEnter(cellId)
  \/ (WillFill => Within(MaxMut)) /\ WindowMouseUp
  \/ ColumnResizeDown(0)
  \/ RowResizeDown(0)
  \/ WindowMouseMove(MinColumnWidth, MinRowHeight)
  \/ Timeout

SpecPointer == Init /\ [][NextPointer]_vars

(* SpecFillDrag: the fill handle of a selection dragged over the cells     *)
(* next to it, on a sheet with a value to fill from.                       *)

NextFillDrag ==
  \/ Within(MaxMut) /\ CellChange(K00, "a")
  \/ \E cellId \in PointerCells, isFillHandle \in BOOLEAN :
       CellMouseDown(0, cellId, isFillHandle, FALSE, FALSE)
  \/ \E cellId \in PointerCells : CellMouseEnter(cellId)
  \/ (WillFill => Within(MaxMut)) /\ WindowMouseUp
  \/ Timeout

SpecFillDrag == Init /\ [][NextFillDrag]_vars

\* The controller is idle: no drag, no fill drag, no preview, no resize.
GridIdle(g) ==
  /\ ~g.isDragging /\ ~g.isFillDragging
  /\ g.fillRange = <<>>
  /\ g.isResizingColumn = None /\ g.isResizingRow = None

\* C37: fill drag.  While the controller is fill-dragging a selection,
\* entering a cell sets the fillRange preview to the rectangle between the
\* selection's first cell and the entered cell minus the selected cells,
\* and changes no sheet; a pointer-up with a non-empty preview calls
\* fillCells(selection, fillRange) exactly once and leaves the controller
\* idle with an empty preview; a pointer-up with an empty preview changes
\* no cell.
FillDragCommits ==
  ~crashed /\ ActiveIdx # 0 /\ grid.isFillDragging /\ Len(selectedCells) > 0 =>
    /\ \A cellId \in PointerCells :
         editingCell # Some(cellId) =>
           LET entered == handleCellMouseEnter(Desk, cellId)
           IN /\ entered.grid.fillRange =
                   SelectSeq(getSelectedRange(selectedCells[1], cellId),
                             LAMBDA id : id \notin SeqToSet(selectedCells))
              /\ entered.page.state = Cur
     /\ LET released == windowMouseUp(Desk)
        IN /\ GridIdle(released.grid)
           /\ released.page.state =
                IF Len(grid.fillRange) > 0
                  THEN handleFillCells(Cur, selectedCells, grid.fillRange)
                  ELSE Cur


\* C39: the controller is in at most one mode at a time: at most one of
\* range selecting, fill dragging, column resizing and row resizing is on.
AtMostOneMode ==
  Cardinality({mode \in {"rangeSelecting", "fillDragging", "resizingColumn", "resizingRow"} :
                 CASE mode = "rangeSelecting" -> grid.isDragging
                   [] mode = "fillDragging" -> grid.isFillDragging
                   [] mode = "resizingColumn" -> IsSome(grid.isResizingColumn)
                   [] mode = "resizingRow" -> IsSome(grid.isResizingRow)}) <= 1

-----------------------------------------------------------------------------
(* Properties of committing an edit, stated over SpecEdit.                 *)

\* The two keys are next to each other in a row or in a column.
Adjacent(a, b) ==
  \/ a[1] = b[1] /\ (a[2] = b[2] + 1 \/ b[2] = a[2] + 1)
  \/ a[2] = b[2] /\ (a[1] = b[1] + 1 \/ b[1] = a[1] + 1)

\* C38: when an edit is committed with Tab or Enter, the value is written
\* and the selection moves to a cell adjacent to the edited one.
CommitMovesSelection ==
  [][InputCommit =>
       /\ Len(selectedCells') = 1
       /\ Adjacent(selectedCells'[1], Get(editingCell))]_vars


\* ---------------------------------------------------------------------------
\* Cut: Ctrl/Cmd+X calls handleCopy() and then handleDelete().
\* ---------------------------------------------------------------------------

handleCut(prev) == handleDelete(handleCopy(prev))

Cut ==
  /\ ~crashed /\ ActiveIdx # 0
  /\ editingCell = None
  /\ Install(handleCut(Cur))
  /\ Counted

CutSelections == {<<K00>>, <<K00, K01>>, <<K10>>, <<K10, K11>>}

NextCut ==
  \/ Within(MaxMut) /\ \E cellId \in {K00, K01} : CellChange(cellId, "a")
  \/ Within(MaxMut) /\ CellChange(K01, "b")
  \/ \E cellIds \in CutSelections : CellSelect(cellIds, FALSE)
  \/ Within(MaxMut) /\ Cut
  \/ Within(MaxMut) /\ Paste
  \/ Timeout

SpecCut == Init /\ [][NextCut]_vars

WorldValue(world, cellId) ==
  ValueAt(world.sheets[FindSheet(world.sheets, world.activeSheetId)],
          world.heap, cellId)

WorldClip(world) ==
  [i \in DOMAIN world.copiedCells |-> world.heap[world.copiedCells[i]]]

\* Cut, then select the target and paste; prompt: the target is selected
\* before the 10 ms timer of the delete has fired.
CutThenPaste(prev, target, prompt) ==
  LET cut == handleCut(prev)
      waited == IF prompt THEN cut ELSE Settle(cut)
      selected == handleCellSelect(waited, target, FALSE)
  IN Settle(handlePaste(selected))

Moved(prev, target, prompt) ==
  LET after == CutThenPaste(prev, target, prompt)
      n == Len(prev.selectedCells)
  IN /\ \A i \in DOMAIN target :
          WorldValue(after, target[i]) =
            WorldValue(prev, prev.selectedCells[((i - 1) % n) + 1])
     /\ \A cellId \in SeqToSet(prev.selectedCells) : WorldValue(after, cellId) = ""
     /\ WorldClip(Settle(handleCut(prev))) = WorldClip(handleCopy(prev))
     /\ WorldClip(after) = WorldClip(handleCopy(prev))

CutInputs ==
  {target \in CutSelections : SeqToSet(target) \cap SeqToSet(selectedCells) = {}}

\* C40: after a cut of the selection and a later paste onto other keys, the
\* pasted cells carry the values the cut cells had, the cut cells have empty
\* values, and the delete step leaves the clipboard as the copy made it;
\* whether or not the target is selected before the delete's timer fires.
CutThenPasteMoves ==
  (~crashed /\ ActiveIdx # 0 /\ editingCell = None /\ Len(selectedCells) > 0) =>
    \A target \in CutInputs : \A prompt \in BOOLEAN : Moved(Cur, target, prompt)

=============================================================================
